---------------------------- MODULE Spec2Model ----------------------------
(***************************************************************************)
(* Model of the client-side generation pipeline of frontend_usual_ai.      *)
(*                                                                         *)
(* ChatSpec  a session of the chat workflow (ChatWidgetSidebar in          *)
(*           FlowWidget.jsx, lines 1073-2171): the six-step state machine, *)
(*           the batch generation runs, project loading and the two        *)
(*           effects.                                                      *)
(* FlowSpec  a session of the flow editor (FlowWidget in FlowWidget.jsx,   *)
(*           lines 28-1047): the per-entity operations, their in-flight    *)
(*           sets and the refresh of the project data.                     *)
(* Spec      the application (App): it shows the chat workflow or the flow *)
(*           editor, and the user switches between the two.                *)
(*                                                                         *)
(* React semantics assumed: state updates issued by one synchronous piece  *)
(* of code (an event handler, or the continuation of an await) are applied *)
(* together, then the component renders, then the effects whose            *)
(* dependencies changed run in source order.  One action of the model is   *)
(* one such piece of code together with the effects it triggers.  An async *)
(* function keeps the values of the render in which it was called (its     *)
(* closure); these are stored in the record of the run.                    *)
(***************************************************************************)
EXTENDS Integers, Sequences, FiniteSets, TLC

\* ------------------------------------------------------------------ bounds
\* Largest number of segments in a script returned by the script service
\* or by the project service.
MaxSegs == 2
\* Largest number of async functions of the component shown (concept
\* writer, script generation, image batch, video batch and project load of
\* the chat workflow; the operations of the flow editor) that are suspended
\* at an await at the same time.
MaxInFlight == 2
\* Largest number of async functions the chat workflow starts between its
\* mount and its unmount.
MaxRuns == 2
\* Largest number of clicks and edits of the user the chat workflow handles
\* between its mount and its unmount.
MaxGestures == 4

\* ------------------------------------------------------------------ values
\* null / undefined.  Every nullable value of the program is an object,
\* modelled as a record: a project [id], a concept [title], an error
\* [message], an array held in a nullable variable [items], a step id held
\* in a nullable variable [step].
Null == [null |-> TRUE]

Projects == {[id |-> "A"], [id |-> "B"]}

Array(items) == [items |-> items]
StepId(n) == [step |-> n]
Error(message) == [message |-> message]

Steps == 0..5

\* Strings are sequences of characters; only blank / non-blank matters to
\* the workflow (String.prototype.trim).
IsSpace(ch) == ch \in {" ", "\n", "\t"}

RECURSIVE TrimLeft(_)
TrimLeft(s) ==
  IF s = <<>> THEN <<>>
  ELSE IF IsSpace(Head(s)) THEN TrimLeft(Tail(s)) ELSE s

RECURSIVE TrimRight(_)
TrimRight(s) ==
  IF s = <<>> THEN <<>>
  ELSE IF IsSpace(s[Len(s)]) THEN TrimRight(SubSeq(s, 1, Len(s) - 1)) ELSE s

Trim(s) == TrimRight(TrimLeft(s))

\* JavaScript truthiness of a string value.
Truthy(s) == s # <<>>

TextStr == <<"a">>
BlankStr == <<" ">>
EmptyStr == <<>>

\* What the user may type into the prompt field
Prompts == {BlankStr, TextStr}

\* Identifiers are strings, modelled as the sequence of their parts
\* between dashes: the id N is <<"N">>, "seg-N" is <<"seg", "N">> and
\* "seg-N-T" is <<"seg", "N", "T">>.  The empty sequence is the empty
\* string, or an identifier that is missing.
BareKey(n) == <<ToString(n)>>
SegKey(n) == <<"seg", ToString(n)>>

\* `seg-${id}` (template literal of lines 1723 and 1733)
SegPrefixed(k) == <<"seg">> \o k

EmptyMap == [k \in {} |-> Null]

\* m with key k set to v (an object spread followed by a computed key, or
\* an assignment to one property)
Put(m, k, v) == [x \in (DOMAIN m) \cup {k} |-> IF x = k THEN v ELSE m[x]]

\* Object.keys(m).length === 0
IsEmptyMap(m) == DOMAIN m = {}

\* The index set of a sequence
Idx(s) == 1..Len(s)


\* ------------------------------------------------------------ data domains
\* A segment of a script, with the fields the workflow reads.
Seg(n, visual) ==
  [id |-> BareKey(n), visual |-> visual, s3Key |-> Null, videoUrl |-> Null]

\* Storage keys and URLs.  src tells a key returned by a generation call
\* ("gen") from one stored by the project service ("server").
S3Key(src, kind, k) == [src |-> src, kind |-> kind, of |-> k]
CloudfrontUrl(key) == [host |-> "cloudfront", key |-> key]
DownloadedUrl(key) == [host |-> "download", key |-> key]

\* Segment lists the services return: MaxSegs segments that all have a
\* visual prompt, MaxSegs segments of which the last has a blank visual
\* prompt, one segment with a blank visual prompt, and no segment.
FullSegs == [i \in 1..MaxSegs |-> Seg(i, TextStr)]
LastBlankSegs == [i \in 1..MaxSegs |-> Seg(i, IF i = MaxSegs THEN BlankStr ELSE TextStr)]
BlankSegs == <<Seg(1, BlankStr)>>

\* The pairs of segment lists the script service
\* (segmentationApi.getSegmentation, called twice) may return.
ScriptResponses == {<<FullSegs, LastBlankSegs>>, <<BlankSegs, <<>>>>}

\* Concepts, and the concept lists the concept service or the project
\* service may return.
AllConcepts == {[title |-> "c1"], [title |-> "c2"]}

ConceptLists == {<<>>, <<[title |-> "c1"], [title |-> "c2"]>>}

\* What the project service holds for a project (the five responses of
\* loadProjectData that the code reads): concepts, the segments of the
\* first segmentation, image records and video records.  A response with
\* success = false or with no data reads as an empty list.
ImageRecord(uuid) == [uuid |-> uuid, s3Key |-> S3Key("server", "image", uuid)]
VideoRecord(uuid) == [uuid |-> uuid, s3Key |-> S3Key("server", "video", uuid)]

\* An image record that carries no storage key but the url of the image,
\* somewhere else than on the CloudFront host (img.url of line 2065)
ExternalUrl(k) == [host |-> "elsewhere", key |-> k]
UrlImageRecord(uuid) == [uuid |-> uuid, s3Key |-> Null, url |-> ExternalUrl(uuid)]

ProjectData(c, segs, imgs, vids) ==
  [concepts |-> c, segments |-> segs, images |-> imgs, videos |-> vids]

\* a new project; a project taken through the whole workflow, whose images
\* are stored under the ids of its segments, with a video of its first
\* segment stored under either form of the segment's id; a project with a segmentation
\* only; a project with concepts only; a project with a segmentation and an
\* image that the flow editor created for its first segment (uuid
\* seg-1-<timestamp>, line 383); a project with an image and a video but no
\* segmentation; a project with a segmentation whose last segment has a
\* blank visual prompt, and with an image record for its first segment that
\* carries a url and no storage key.
ServerData ==
  {ProjectData(<<>>, <<>>, <<>>, <<>>),
   ProjectData(<<[title |-> "c1"], [title |-> "c2"]>>, FullSegs,
               [i \in 1..MaxSegs |-> ImageRecord(BareKey(i))],
               <<VideoRecord(SegKey(1)), VideoRecord(BareKey(1))>>),
   ProjectData(<<>>, FullSegs, <<>>, <<>>),
   ProjectData(<<[title |-> "c1"], [title |-> "c2"]>>, <<>>, <<>>, <<>>),
   ProjectData(<<>>, FullSegs, <<ImageRecord(<<"seg", "1", "7">>)>>, <<>>),
   ProjectData(<<>>, <<>>, <<ImageRecord(SegKey(1))>>, <<VideoRecord(SegKey(1))>>),
   ProjectData(<<>>, LastBlankSegs, <<UrlImageRecord(BareKey(1))>>, <<>>)}

\* Outcome of one per-segment generation call: the call and the download
\* of its result succeeded, the call returned no s3_key, or one of the two
\* requests threw.  Nothing is written between the two awaits of a call
\* (lines 1615-1625, 1768-1781), so they are one step.
CallOutcomes == {"ok", "nokey", "threw"}

\* ------------------------------------------------------------------- state
VARIABLES
  \* App: the chat workflow is shown (true) or the flow editor (false)
  showChat,
  \* localStorage: the project stored under project-store-selectedProject
  storedProject,
  \* FlowWidget (lines 30-51): loading, error, allProjectData, the four
  \* in-flight sets and the previews
  flowLoading, flowError, allProjectData,
  regeneratingImages, regeneratingVideos, creatingImages, creatingVideos,
  temporaryVideos,
  \* async functions of FlowWidget that are suspended at an await
  flowOps,
  \* ChatWidgetSidebar (lines 1076-1157)
  prompt, loading, error, selectedProject,
  currentStep, stepStatus,
  concepts, selectedConcept, scripts, selectedScript,
  generatedImages, generatedVideos, generationProgress,
  showRedoModal, redoStepId, creditDeductionMessage,
  \* the video map kept next to generatedVideos (lines 1088-1100)
  storedVideosMap,
  \* the models of the two selectors (lines 1148-1149) and of the redo
  \* dialog (lines 1153-1154)
  selectedImageModel, selectedVideoModel, redoImageModel, redoVideoModel,
  \* async functions of ChatWidgetSidebar that are suspended at an await
  cwRuns, sgRuns, imgRuns, vidRuns, loads,
  \* the number of async functions ChatWidgetSidebar started since its mount
  started,
  \* the number of clicks and edits ChatWidgetSidebar handled since its mount
  gestures,
  \* the step taken last: its handler, its argument and what it did
  \* (history)
  last

chatVars ==
  <<prompt, loading, error, selectedProject, currentStep, stepStatus,
    concepts, selectedConcept, scripts, selectedScript,
    generatedImages, generatedVideos, generationProgress,
    showRedoModal, redoStepId, creditDeductionMessage,
    selectedImageModel, selectedVideoModel, redoImageModel, redoVideoModel,
    storedVideosMap,
    cwRuns, sgRuns, imgRuns, vidRuns, loads, started, gestures>>

flowSets == <<regeneratingImages, regeneratingVideos, creatingImages, creatingVideos>>

flowVars == <<flowLoading, flowError, allProjectData, flowSets, temporaryVideos, flowOps>>

vars == <<showChat, storedProject, chatVars, flowVars, last>>

AllPending == [n \in Steps |-> "pending"]

\* What localStorage holds under project-store-videos and segmentVideos,
\* written by an earlier session: a video of the first segment
CachedUrl(k) == [host |-> "cache", key |-> k]
CachedVideosMap == [k \in {<<"1">>} |-> CachedUrl(k)]

\* AVAILABLE_MODELS of services/chat.js (lines 5-36): the keys of a
\* generation type, in the order of the object
AvailableModels(genType) ==
  IF genType = "IMAGE" THEN <<"recraft-v3", "imagen">>
                       ELSE <<"kling-v2.1-master", "gen4_turbo">>

\* getDefaultModel (lines 123-129): the first key
GetDefaultModel(genType) == AvailableModels(genType)[1]

ModelsOf(genType) == {AvailableModels(genType)[i] : i \in 1..Len(AvailableModels(genType))}

\* useState initial values (lines 1076-1157) followed by the effects of the
\* first render: the selected project p is read from localStorage; with a
\* project the selectedProject effect starts loadProjectData (loading true),
\* without one it calls resetFlow, which installs the initial values again.
\* These are also the values of the component while it is not mounted
\* (with p null).
ChatInitial(p) ==
  /\ selectedProject = p
  /\ prompt = EmptyStr
  /\ loading = (p # Null)
  /\ error = Null
  /\ currentStep = 0
  /\ stepStatus = AllPending
  /\ concepts = Null
  /\ selectedConcept = Null
  /\ scripts = Null
  /\ selectedScript = Null
  /\ generatedImages = EmptyMap
  /\ generatedVideos = EmptyMap
  /\ storedVideosMap = CachedVideosMap
  /\ generationProgress = EmptyMap
  /\ showRedoModal = FALSE
  /\ redoStepId = Null
  /\ creditDeductionMessage = Null
  /\ selectedImageModel = GetDefaultModel("IMAGE")
  /\ selectedVideoModel = GetDefaultModel("VIDEO")
  /\ redoImageModel = GetDefaultModel("IMAGE")
  /\ redoVideoModel = GetDefaultModel("VIDEO")
  /\ cwRuns = <<>>
  /\ sgRuns = <<>>
  /\ imgRuns = <<>>
  /\ vidRuns = <<>>
  /\ loads = IF p # Null THEN <<[proj |-> p]>> ELSE <<>>
  /\ started = Len(loads)
  /\ gestures = 0

\* ----------------------------------------------------------------- effects
\* Some segment satisfies the predicate (Array.prototype.some on the
\* segments of a script that may be null).
HasSegments(script) == script # Null /\ Len(script.segments) > 0

SomeSegS3Key(script) ==
  script # Null /\ \E i \in Idx(script.segments) : script.segments[i].s3Key # Null

SomeSegVideoUrl(script) ==
  script # Null /\ \E i \in Idx(script.segments) : script.segments[i].videoUrl # Null

Done(b) == IF b THEN "done" ELSE "pending"

\* The step status the effect of lines 1229-1296 computes from the data:
\* all six entries are overwritten.
DerivedStepStatus(c, selC, selS, gi, gv) ==
  [n \in Steps |->
     CASE n = 0 -> Done(c # Null /\ Len(c.items) > 0)
       [] n = 1 -> Done(selC # Null)
       [] n = 2 -> Done(HasSegments(selS))
       [] n = 3 -> Done(HasSegments(selS))
       [] n = 4 -> Done(~IsEmptyMap(gi) \/ SomeSegS3Key(selS))
       [] n = 5 -> Done(~IsEmptyMap(gv) \/ SomeSegVideoUrl(selS))]

\* The step status after the render that follows a batch of state updates:
\* ss is the status the updates left; the effect runs when one of its
\* dependencies changed, and returns at once when no project is selected.
StepStatusEffect(ss, depsChanged, proj, c, selC, selS, gi, gv) ==
  IF depsChanged /\ proj # Null
    THEN DerivedStepStatus(c, selC, selS, gi, gv)
    ELSE ss

\* (variant: the update is dropped)
KeepStepStatus(ss, stepId, status) == ss

\* updateStepStatus (lines 1376-1381)
UpdateStepStatus(ss, stepId, status) == [ss EXCEPT ![stepId] = status]

\* Messages of the notification banner (showCreditDeduction,
\* showRequestFailed, lines 1321-1374).
Deduction(service) == [kind |-> "deduction", service |-> service]
RequestFailed(service) == [kind |-> "failed", service |-> service]

\* ------------------------------------------------------ object identity
\* A script object is [oid, segments].  Two holders of a script (the state
\* selectedScript, scripts.response1/2, the closure of a running image
\* batch) hold the same object exactly when the oids agree; the assignment
\* segment.s3Key = ... of line 1626 writes through to every holder.
ScriptOids(holders) == {h.oid : h \in {x \in holders : x # Null}}

Holders ==
  {selectedScript}
    \cup (IF scripts = Null THEN {} ELSE {scripts.response1, scripts.response2})
    \cup {imgRuns[r].script : r \in Idx(imgRuns)}

\* The k-th unused object id (a fresh object is held by nobody).
FreshOid(k) ==
  LET used == ScriptOids(Holders)
      free == (1..(Cardinality(used) + k)) \ used
      RECURSIVE Nth(_, _)
      Nth(S, n) ==
        LET m == CHOOSE x \in S : \A y \in S : x <= y
        IN IF n = 1 THEN m ELSE Nth(S \ {m}, n - 1)
  IN Nth(free, k)

Script(oid, segments) == [oid |-> oid, segments |-> segments]

\* segment.s3Key = key on the segment at index i of the object oid, seen
\* through the holder h.
WriteS3Key(h, oid, i, key) ==
  IF h # Null /\ h.oid = oid
    THEN [h EXCEPT !.segments[i].s3Key = key]
    ELSE h

\* ----------------------------------------------------------- run records
\* The number of async functions suspended at an await
InFlight == Len(cwRuns) + Len(sgRuns) + Len(imgRuns) + Len(vidRuns) + Len(loads)

dataVars == <<concepts, selectedConcept, scripts, selectedScript, generatedImages>>
modalVars == <<showRedoModal, redoStepId>>
modelVars == <<selectedImageModel, selectedVideoModel>>
redoModels == <<redoImageModel, redoVideoModel>>
\* the variables a run* function may write when it is called
runVars ==
  <<loading, error, stepStatus, generationProgress, creditDeductionMessage,
    generatedVideos, cwRuns, sgRuns, imgRuns, vidRuns, started>>

\* An async function may start
MayStart == InFlight < MaxInFlight /\ started < MaxRuns

ProgressEntry(type, status, index, total, err) ==
  [type |-> type, status |-> status, index |-> index, total |-> total, error |-> err]

\* (variant: the update is computed from an empty map instead of prev)
UpdateProgressFromEmpty(prev, id, entry) == Put(EmptyMap, id, entry)

\* setGenerationProgress(prev => ({...prev, [id]: entry})) (lines 1604,
\* 1628, 1640, 1654, 1744, 1783, 1796, 1810)
UpdateProgress(prev, id, entry) == Put(prev, id, entry)

\* One entry per element of targets, written by the functional updates of
\* setGenerationProgress in the order of the array (lines 1604-1612,
\* 1744-1752), starting from the map m.
RECURSIVE MarkGenerating(_, _, _, _, _)
MarkGenerating(m, type, ids, i, total) ==
  IF i > Len(ids) THEN m
  ELSE MarkGenerating(UpdateProgress(m, ids[i],
                                     ProgressEntry(type, "generating", i, total, Null)),
                      type, ids, i + 1, total)

\* ------------------------------------------------------- runConceptWriter
\* (variant: the prompt is tested without trim)
PromptIsEmpty == prompt = <<>>

\* !prompt.trim()  (line 1486)
PromptIsBlank == Trim(prompt) = <<>>

\* runConceptWriter up to its first await (lines 1485-1497)
RunConceptWriter ==
  IF PromptIsBlank
    THEN /\ error' = Error("Please enter a prompt first")
         /\ UNCHANGED <<loading, stepStatus, generationProgress, creditDeductionMessage,
                        generatedVideos, cwRuns, sgRuns, imgRuns, vidRuns, started>>
    ELSE /\ MayStart
         /\ started' = started + 1
         /\ loading' = TRUE
         /\ error' = Null
         /\ stepStatus' = UpdateStepStatus(stepStatus, 0, "loading")
         /\ cwRuns' = Append(cwRuns, [stage |-> "webinfo"])
         /\ UNCHANGED <<generationProgress, creditDeductionMessage, generatedVideos,
                        sgRuns, imgRuns, vidRuns>>

\* ---------------------------------------------------- runScriptGeneration
\* runScriptGeneration up to its await: both requests are issued before
\* Promise.all is awaited (lines 1537-1561)
RunScriptGeneration ==
  IF selectedConcept = Null
    THEN /\ error' = Error("Please select a concept first")
         /\ UNCHANGED <<loading, stepStatus, generationProgress, creditDeductionMessage,
                        generatedVideos, cwRuns, sgRuns, imgRuns, vidRuns, started>>
    ELSE /\ MayStart
         /\ started' = started + 1
         /\ loading' = TRUE
         /\ error' = Null
         /\ stepStatus' = UpdateStepStatus(stepStatus, 2, "loading")
         /\ sgRuns' = Append(sgRuns, [concept |-> selectedConcept])
         /\ UNCHANGED <<generationProgress, creditDeductionMessage, generatedVideos,
                        cwRuns, imgRuns, vidRuns>>

\* ----------------------------------------------------- runImageGeneration
\* seg.visual && seg.visual.trim()  (line 1594)
HasVisual(seg) == Truthy(seg.visual) /\ Truthy(Trim(seg.visual))

\* selectedScript.segments.filter(...) of line 1594: the indices of the
\* segments that pass, in array order
RECURSIVE VisualIdx(_, _)
VisualIdx(segs, i) ==
  IF i > Len(segs) THEN <<>>
  ELSE (IF HasVisual(segs[i]) THEN <<i>> ELSE <<>>) \o VisualIdx(segs, i + 1)

\* (variant: every segment is kept)
EverySegment(script) == [i \in Idx(script.segments) |-> i]

SegmentsToGenerate(script) == VisualIdx(script.segments, 1)

TargetIds(script, targets) == [j \in Idx(targets) |-> script.segments[targets[j]].id]

\* runImageGeneration up to the await of Promise.allSettled: the callback
\* of map runs for every eligible segment, each up to its own await, so all
\* calls are issued (lines 1578-1621).  redo tells that the caller is
\* handleRedoWithModel, which continues after the run.
RunImageGeneration(redo) ==
  IF selectedScript = Null
    THEN /\ error' = Error("Please select a script first")
         /\ UNCHANGED <<loading, stepStatus, generationProgress, creditDeductionMessage,
                        generatedVideos, cwRuns, sgRuns, imgRuns, vidRuns, started>>
    ELSE LET targets == SegmentsToGenerate(selectedScript)
             ids == TargetIds(selectedScript, targets)
         IN IF targets = <<>>
              THEN /\ error' = Error("No visual prompts found in script segments.")
                   /\ loading' = FALSE
                   /\ stepStatus' = UpdateStepStatus(stepStatus, 4, "pending")
                   /\ generationProgress' = EmptyMap
                   /\ UNCHANGED <<creditDeductionMessage, generatedVideos,
                                  cwRuns, sgRuns, imgRuns, vidRuns, started>>
              ELSE /\ MayStart
                   /\ started' = started + 1
                   /\ loading' = TRUE
                   /\ error' = Null
                   /\ stepStatus' = UpdateStepStatus(stepStatus, 4, "loading")
                   /\ generationProgress' =
                        MarkGenerating(EmptyMap, "image", ids, 1, Len(targets))
                   /\ imgRuns' = Append(imgRuns,
                        [script |-> selectedScript, targets |-> targets,
                         st |-> [j \in Idx(targets) |-> "inflight"], redo |-> redo,
                         model |-> selectedImageModel, project |-> selectedProject])
                   /\ UNCHANGED <<creditDeductionMessage, generatedVideos,
                                  cwRuns, sgRuns, vidRuns>>

\* The run returned to its caller without suspending.
ImageRunReturnsAtOnce ==
  selectedScript = Null \/ SegmentsToGenerate(selectedScript) = <<>>

\* ----------------------------------------------------- runVideoGeneration
\* [segment.id, `seg-${segment.id}`, segment.segmentId, segment.uuid]
\* (lines 1723, 1731-1736); the segments of the model carry no segmentId
\* and no uuid, and generatedImages[undefined] is undefined.
SegmentIdVariants(seg) == <<seg.id, SegPrefixed(seg.id)>>

\* segmentIdVariants.some(id => generatedImages[id])
HasImage(seg, images) ==
  \E v \in Idx(SegmentIdVariants(seg)) : SegmentIdVariants(seg)[v] \in DOMAIN images

\* segmentIdVariants.find(id => generatedImages[id]): the first that matches
MatchingImageKey(seg, images) ==
  LET vs == SegmentIdVariants(seg)
      v == CHOOSE x \in Idx(vs) :
             /\ vs[x] \in DOMAIN images
             /\ \A y \in Idx(vs) : vs[y] \in DOMAIN images => x <= y
  IN vs[v]

\* segments.filter(...) of lines 1722-1725
RECURSIVE ImageIdx(_, _, _)
ImageIdx(segs, i, images) ==
  IF i > Len(segs) THEN <<>>
  ELSE (IF HasImage(segs[i], images) THEN <<i>> ELSE <<>>) \o ImageIdx(segs, i + 1, images)

ValidSegments(script, images) == ImageIdx(script.segments, 1, images)

\* runVideoGeneration up to the await of Promise.allSettled (lines
\* 1704-1775).  With selectedScript null, line 1717 throws a TypeError
\* inside the try; with no valid segment Promise.allSettled([]) resolves
\* at once and the function runs to its end.
RunVideoGeneration(redo) ==
  IF IsEmptyMap(generatedImages)
    THEN /\ error' = Error("Please generate images first")
         /\ UNCHANGED <<loading, stepStatus, generationProgress, creditDeductionMessage,
                        generatedVideos, cwRuns, sgRuns, imgRuns, vidRuns, started>>
    ELSE IF selectedScript = Null
      THEN /\ creditDeductionMessage' = RequestFailed("Video Generation")
           /\ error' = Error("TypeError")
           /\ stepStatus' = UpdateStepStatus(stepStatus, 5, "pending")
           /\ loading' = FALSE
           /\ generationProgress' = EmptyMap
           /\ UNCHANGED <<generatedVideos, cwRuns, sgRuns, imgRuns, vidRuns, started>>
      ELSE LET targets == ValidSegments(selectedScript, generatedImages)
               ids == TargetIds(selectedScript, targets)
           IN IF targets = <<>>
                THEN /\ error' = Null
                     /\ generationProgress' = EmptyMap
                     /\ generatedVideos' = EmptyMap
                     /\ stepStatus' =
                          StepStatusEffect(UpdateStepStatus(stepStatus, 5, "done"), TRUE,
                                           selectedProject, concepts, selectedConcept,
                                           selectedScript, generatedImages, EmptyMap)
                     /\ loading' = FALSE
                     /\ UNCHANGED <<creditDeductionMessage, cwRuns, sgRuns, imgRuns, vidRuns,
                                    started>>
                ELSE /\ MayStart
                     /\ started' = started + 1
                     /\ loading' = TRUE
                     /\ error' = Null
                     /\ stepStatus' = UpdateStepStatus(stepStatus, 5, "loading")
                     /\ generationProgress' =
                          MarkGenerating(EmptyMap, "video", ids, 1, Len(targets))
                     /\ vidRuns' = Append(vidRuns,
                          [ids |-> ids,
                           images |-> [j \in Idx(targets) |->
                              generatedImages[MatchingImageKey(
                                 selectedScript.segments[targets[j]], generatedImages)]],
                           st |-> [j \in Idx(targets) |-> "inflight"], redo |-> redo,
                           model |-> selectedVideoModel, project |-> selectedProject])
                     /\ UNCHANGED <<creditDeductionMessage, generatedVideos,
                                    cwRuns, sgRuns, imgRuns>>

VideoRunReturnsAtOnce ==
  \/ IsEmptyMap(generatedImages)
  \/ selectedScript = Null
  \/ ValidSegments(selectedScript, generatedImages) = <<>>

\* ----------------------------------------------------------- UI handlers
\* isStepDisabled (lines 1400-1409); selectedScript.segments is an array
\* whenever selectedScript is set.
\* The redo dialog is drawn over the whole page (lines 3061-3064): while
\* it is shown, a click reaches the dialog or its backdrop only.
PageReachable == ~showRedoModal

IsStepDisabled(stepId) ==
  \/ loading
  \/ stepId = 1 /\ concepts = Null
  \/ stepId = 2 /\ selectedConcept = Null
  \/ stepId = 3 /\ selectedScript = Null
  \/ stepId = 4 /\ selectedScript = Null
  \/ stepId = 5 /\ IsEmptyMap(generatedImages)

Last(op, arg, res) == [op |-> op, arg |-> arg, res |-> res]

\* A step of ChatWidgetSidebar that no click or edit of the user starts (a
\* continuation of an async function): App shows the chat workflow (line
\* 40 of App), and the step writes nothing of the flow editor.
ChatStep ==
  /\ showChat
  /\ UNCHANGED <<showChat, storedProject, flowVars, gestures, modelVars, redoModels,
                 storedVideosMap>>

\* A step of ChatWidgetSidebar that handles a click or an edit of the user
UserGesture ==
  /\ showChat
  /\ gestures < MaxGestures
  /\ gestures' = gestures + 1
  /\ UNCHANGED <<showChat, storedProject, flowVars, storedVideosMap>>

\* ... and writes no model selection
UserStep == UserGesture /\ UNCHANGED <<modelVars, redoModels>>

\* A step of ChatWidgetSidebar that comes with a write of the project p to
\* localStorage, by this page (line 2149) or by another one (the storage
\* event of line 1175).
ChatStorageStep(p) ==
  showChat /\ storedProject' = p /\ UNCHANGED <<showChat, flowVars, gestures, redoModels>>

\* What a call of a run* function did: it refused its input ("rejected"),
\* ran to its end without suspending ("returned"), or is suspended at an
\* await with its requests issued ("started").
CwResult == IF PromptIsBlank THEN "rejected" ELSE "started"
SgResult == IF selectedConcept = Null THEN "rejected" ELSE "started"
ImgResult ==
  IF selectedScript = Null THEN "rejected"
  ELSE IF ImageRunReturnsAtOnce THEN "returned" ELSE "started"
VidResult ==
  IF IsEmptyMap(generatedImages) THEN "rejected"
  ELSE IF VideoRunReturnsAtOnce THEN "returned" ELSE "started"

\* InputArea: setPrompt
SetPrompt(p) ==
  /\ UserStep
  /\ PageReachable
  /\ p # prompt
  /\ prompt' = p
  /\ UNCHANGED <<selectedProject, currentStep, dataVars, modalVars, runVars, loads>>
  /\ last' = Last("setPrompt", p, "none")

\* handleStepClick (lines 1411-1433)
\* (variant: the status of the step is not consulted before the switch)
HandleStepClickRunsDone(stepId) ==
  /\ UserStep
  /\ PageReachable
  /\ ~(IsStepDisabled(stepId) \/ loading)
  /\ currentStep' = stepId
  /\ IF stepId = 0
       THEN RunConceptWriter /\ last' = Last("handleStepClick", stepId, CwResult)
       ELSE IF stepId = 2
         THEN RunScriptGeneration /\ last' = Last("handleStepClick", stepId, SgResult)
         ELSE UNCHANGED runVars /\ last' = Last("handleStepClick", stepId, "none")
  /\ UNCHANGED <<prompt, selectedProject, dataVars, modalVars, loads>>

HandleStepClick(stepId) ==
  /\ UserStep
  /\ PageReachable
  /\ ~(IsStepDisabled(stepId) \/ loading)
  /\ currentStep' = stepId
  /\ IF stepStatus[stepId] # "done" /\ stepId = 0
       THEN RunConceptWriter /\ last' = Last("handleStepClick", stepId, CwResult)
       ELSE IF stepStatus[stepId] # "done" /\ stepId = 2
         THEN RunScriptGeneration /\ last' = Last("handleStepClick", stepId, SgResult)
         ELSE UNCHANGED runVars /\ last' = Last("handleStepClick", stepId, "none")
  /\ UNCHANGED <<prompt, selectedProject, dataVars, modalVars, loads>>

\* handleRedoStep (lines 1435-1458)
HandleRedoStep(stepId) ==
  /\ UserGesture
  /\ PageReachable
  /\ ~loading
  /\ UNCHANGED modelVars
  /\ IF stepId \in {4, 5}
       THEN /\ redoStepId' = StepId(stepId)
            /\ redoImageModel' = selectedImageModel
            /\ redoVideoModel' = selectedVideoModel
            /\ showRedoModal' = TRUE
            /\ UNCHANGED <<currentStep, runVars>>
            /\ last' = Last("handleRedoStep", stepId, "none")
       ELSE /\ currentStep' = stepId
            /\ UNCHANGED <<modalVars, redoModels>>
            /\ IF stepId = 0
                 THEN RunConceptWriter /\ last' = Last("handleRedoStep", stepId, CwResult)
                 ELSE IF stepId = 2
                   THEN RunScriptGeneration
                        /\ last' = Last("handleRedoStep", stepId, SgResult)
                   ELSE UNCHANGED runVars /\ last' = Last("handleRedoStep", stepId, "none")
  /\ UNCHANGED <<prompt, selectedProject, dataVars, loads>>

\* The redo dialog's Cancel button and backdrop (lines 3064, 3107)
CancelRedoModal ==
  /\ UserStep
  /\ showRedoModal
  /\ showRedoModal' = FALSE
  /\ UNCHANGED <<prompt, selectedProject, currentStep, dataVars, redoStepId, runVars, loads>>
  /\ last' = Last("cancelRedoModal", Null, "none")

\* handleRedoWithModel (lines 1460-1483); the statement after the await
\* runs at once when the run returned without suspending, and otherwise
\* when the run ends.
HandleRedoWithModel ==
  /\ UserGesture
  /\ showRedoModal
  /\ ~(loading \/ redoStepId = Null)
  /\ showRedoModal' = FALSE
  /\ currentStep' = redoStepId.step
  /\ UNCHANGED redoModels
  /\ IF redoStepId.step = 4
       THEN /\ selectedImageModel' = redoImageModel
            /\ UNCHANGED selectedVideoModel
            /\ RunImageGeneration(TRUE)
            /\ redoStepId' = IF ImageRunReturnsAtOnce THEN Null ELSE redoStepId
            /\ last' = Last("handleRedoWithModel", 4, ImgResult)
       ELSE /\ selectedVideoModel' = redoVideoModel
            /\ UNCHANGED selectedImageModel
            /\ RunVideoGeneration(TRUE)
            /\ redoStepId' = IF VideoRunReturnsAtOnce THEN Null ELSE redoStepId
            /\ last' = Last("handleRedoWithModel", 5, VidResult)
  /\ UNCHANGED <<prompt, selectedProject, dataVars, loads>>

\* The "Generate Images" button (lines 2455-2463)
GenerateImages ==
  /\ UserStep
  /\ PageReachable
  /\ currentStep = 4
  /\ stepStatus[4] # "done"
  /\ ~loading
  /\ RunImageGeneration(FALSE)
  /\ UNCHANGED <<prompt, selectedProject, currentStep, dataVars, modalVars, loads>>
  /\ last' = Last("runImageGeneration", Null, ImgResult)

\* The "Generate Videos" button (lines 2477-2485)
GenerateVideos ==
  /\ UserStep
  /\ PageReachable
  /\ currentStep = 5
  /\ stepStatus[5] # "done"
  /\ ~(loading \/ IsEmptyMap(generatedImages))
  /\ RunVideoGeneration(FALSE)
  /\ UNCHANGED <<prompt, selectedProject, currentStep, dataVars, modalVars, loads>>
  /\ last' = Last("runVideoGeneration", Null, VidResult)

\* The model selector of step 4 (lines 2447-2453) and of step 5 (lines
\* 2469-2475): onModelChange is the state setter
SetSelectedModel(genType, m) ==
  /\ UserGesture
  /\ PageReachable
  /\ ~loading
  /\ m \in ModelsOf(genType)
  /\ IF genType = "IMAGE"
       THEN currentStep = 4 /\ m # selectedImageModel
            /\ selectedImageModel' = m /\ UNCHANGED selectedVideoModel
       ELSE currentStep = 5 /\ m # selectedVideoModel
            /\ selectedVideoModel' = m /\ UNCHANGED selectedImageModel
  /\ UNCHANGED <<prompt, selectedProject, currentStep, dataVars, modalVars, redoModels,
                 runVars, loads>>
  /\ last' = Last("setSelectedModel", m, genType)

\* The model selector of the redo dialog (lines 3077-3101)
SetRedoModel(genType, m) ==
  /\ UserGesture
  /\ showRedoModal
  /\ ~loading
  /\ redoStepId # Null
  /\ m \in ModelsOf(genType)
  /\ IF genType = "IMAGE"
       THEN redoStepId.step = 4 /\ m # redoImageModel
            /\ redoImageModel' = m /\ UNCHANGED redoVideoModel
       ELSE redoStepId.step = 5 /\ m # redoVideoModel
            /\ redoVideoModel' = m /\ UNCHANGED redoImageModel
  /\ UNCHANGED <<prompt, selectedProject, currentStep, dataVars, modalVars, modelVars,
                 runVars, loads>>
  /\ last' = Last("setRedoModel", m, genType)

\* handleConceptSelect (lines 1846-1850) behind the concept buttons (lines
\* 2356-2365).  The effect runs when the selected concept changed.
HandleConceptSelect(c) ==
  /\ UserStep
  /\ PageReachable
  /\ concepts # Null
  /\ currentStep = 1 \/ (Len(concepts.items) > 0 /\ stepStatus[1] = "pending")
  /\ \E i \in Idx(concepts.items) : concepts.items[i] = c
  /\ selectedConcept' = c
  /\ currentStep' = 2
  /\ stepStatus' =
       StepStatusEffect(UpdateStepStatus(stepStatus, 1, "done"), c # selectedConcept,
                        selectedProject, concepts, c, selectedScript,
                        generatedImages, generatedVideos)
  /\ UNCHANGED <<prompt, selectedProject, concepts, scripts, selectedScript,
                 generatedImages, modalVars, loading, error, generationProgress,
                 creditDeductionMessage, generatedVideos, cwRuns, sgRuns, imgRuns,
                 vidRuns, loads, started>>
  /\ last' = Last("handleConceptSelect", c, "none")

\* handleScriptSelect (lines 1852-1856) behind the two script buttons
\* (lines 2381-2393).  The effect runs when another object is selected.
HandleScriptSelect(script) ==
  /\ UserStep
  /\ PageReachable
  /\ scripts # Null
  /\ currentStep \in {2, 3}
  /\ script \in {scripts.response1, scripts.response2}
  /\ selectedScript' = script
  /\ currentStep' = 4
  /\ stepStatus' =
       StepStatusEffect(UpdateStepStatus(stepStatus, 3, "done"),
                        selectedScript = Null \/ selectedScript.oid # script.oid,
                        selectedProject, concepts, selectedConcept, script,
                        generatedImages, generatedVideos)
  /\ UNCHANGED <<prompt, selectedProject, concepts, selectedConcept, scripts,
                 generatedImages, modalVars, loading, error, generationProgress,
                 creditDeductionMessage, generatedVideos, cwRuns, sgRuns, imgRuns,
                 vidRuns, loads, started>>
  /\ last' = Last("handleScriptSelect", script, "none")

\* The dismiss button of the error banner (line 2340)
DismissError ==
  /\ UserStep
  /\ PageReachable
  /\ error # Null
  /\ error' = Null
  /\ UNCHANGED <<prompt, selectedProject, currentStep, dataVars, modalVars, loads,
                 loading, stepStatus, generationProgress, creditDeductionMessage,
                 generatedVideos, cwRuns, sgRuns, imgRuns, vidRuns, started>>
  /\ last' = Last("dismissError", Null, "none")

\* The timers of showCreditDeduction and showRequestFailed (lines 1361,
\* 1373, 1517)
ClearNotification ==
  /\ UserStep
  /\ creditDeductionMessage # Null
  /\ creditDeductionMessage' = Null
  /\ UNCHANGED <<prompt, selectedProject, currentStep, dataVars, modalVars, loads,
                 loading, error, stepStatus, generationProgress,
                 generatedVideos, cwRuns, sgRuns, imgRuns, vidRuns, started>>
  /\ last' = Last("clearNotification", Null, "none")

\* ------------------------------------------------------- continuations
RemoveAt(seq, r) == [k \in 1..(Len(seq) - 1) |-> IF k < r THEN seq[k] ELSE seq[k + 1]]

\* runConceptWriter after webInfoApi.processWebInfo settled (lines
\* 1497-1502); reading choices[0].message.content of a malformed response
\* throws like a failed request.
CwWebInfoSettle(r, ok) ==
  /\ ChatStep
  /\ r \in Idx(cwRuns)
  /\ cwRuns[r].stage = "webinfo"
  /\ IF ok
       THEN /\ cwRuns' = [cwRuns EXCEPT ![r].stage = "concepts"]
            /\ UNCHANGED <<loading, error, stepStatus, creditDeductionMessage>>
       ELSE /\ cwRuns' = RemoveAt(cwRuns, r)
            /\ creditDeductionMessage' = RequestFailed("Concept Generation")
            /\ error' = Error("Failed to generate concepts")
            /\ stepStatus' = UpdateStepStatus(stepStatus, 0, "pending")
            /\ loading' = FALSE
  /\ UNCHANGED <<prompt, selectedProject, currentStep, dataVars, modalVars, loads,
                 generationProgress, generatedVideos, sgRuns, imgRuns, vidRuns, started>>
  /\ last' = Last("runConceptWriter.webInfo", Null, IF ok THEN "ok" ELSE "failed")

\* runConceptWriter after conceptWriterApi.generateConcepts resolved with
\* the concept list cs (lines 1508-1526, 1532-1534)
CwConceptsResolve(r, cs) ==
  /\ ChatStep
  /\ r \in Idx(cwRuns)
  /\ cwRuns[r].stage = "concepts"
  /\ cwRuns' = RemoveAt(cwRuns, r)
  /\ creditDeductionMessage' = Deduction("Concept Writer Process")
  /\ concepts' = Array(cs)
  /\ stepStatus' =
       StepStatusEffect(UpdateStepStatus(stepStatus, 0, "done"), TRUE,
                        selectedProject, Array(cs), selectedConcept, selectedScript,
                        generatedImages, generatedVideos)
  /\ currentStep' = 1
  /\ loading' = FALSE
  /\ UNCHANGED <<prompt, selectedProject, selectedConcept, scripts, selectedScript,
                 generatedImages, modalVars, loads, error, generationProgress,
                 generatedVideos, sgRuns, imgRuns, vidRuns, started>>
  /\ last' = Last("runConceptWriter.concepts", cs, "ok")

\* ... rejected (lines 1527-1534)
CwConceptsReject(r) ==
  /\ ChatStep
  /\ r \in Idx(cwRuns)
  /\ cwRuns[r].stage = "concepts"
  /\ cwRuns' = RemoveAt(cwRuns, r)
  /\ creditDeductionMessage' = RequestFailed("Concept Generation")
  /\ error' = Error("Failed to generate concepts")
  /\ stepStatus' = UpdateStepStatus(stepStatus, 0, "pending")
  /\ loading' = FALSE
  /\ UNCHANGED <<prompt, selectedProject, currentStep, dataVars, modalVars, loads,
                 generationProgress, generatedVideos, sgRuns, imgRuns, vidRuns, started>>
  /\ last' = Last("runConceptWriter.concepts", <<>>, "failed")

\* runScriptGeneration after Promise.all resolved with the two responses
\* (lines 1563-1567, 1573-1575); each response is a new object.
SgResolve(r, segs1, segs2) ==
  /\ ChatStep
  /\ r \in Idx(sgRuns)
  /\ sgRuns' = RemoveAt(sgRuns, r)
  /\ LET res == [response1 |-> Script(FreshOid(1), segs1),
                 response2 |-> Script(FreshOid(2), segs2)]
     IN /\ scripts' = res
        /\ stepStatus' =
             StepStatusEffect(UpdateStepStatus(stepStatus, 2, "done"), TRUE,
                              selectedProject, concepts, selectedConcept, selectedScript,
                              generatedImages, generatedVideos)
  /\ creditDeductionMessage' = Deduction("Script Generation")
  /\ currentStep' = 3
  /\ loading' = FALSE
  /\ UNCHANGED <<prompt, selectedProject, concepts, selectedConcept, selectedScript,
                 generatedImages, modalVars, loads, error, generationProgress,
                 generatedVideos, cwRuns, imgRuns, vidRuns, started>>
  /\ last' = Last("runScriptGeneration", <<segs1, segs2>>, "ok")

\* ... after Promise.all rejected: one of the two requests failed (lines
\* 1568-1575)
SgReject(r) ==
  /\ ChatStep
  /\ r \in Idx(sgRuns)
  /\ sgRuns' = RemoveAt(sgRuns, r)
  /\ creditDeductionMessage' = RequestFailed("Script Generation")
  /\ error' = Error("Failed to generate scripts")
  /\ stepStatus' = UpdateStepStatus(stepStatus, 2, "pending")
  /\ loading' = FALSE
  /\ UNCHANGED <<prompt, selectedProject, currentStep, dataVars, modalVars, loads,
                 generationProgress, generatedVideos, cwRuns, imgRuns, vidRuns, started>>
  /\ last' = Last("runScriptGeneration", <<>>, "failed")

\* How the promise of one per-segment async callback settles: the
\* callback catches every error and returns null (lines 1652-1665,
\* 1808-1821), so the promise is fulfilled whatever the call did.
PromiseStatus(outcome) == "fulfilled"

\* (variant: a call that threw leaves its entry as it was written at the
\* start)
SettledUnlessThrown(type, outcome, index, total) ==
  CASE outcome = "ok" -> ProgressEntry(type, "completed", index, total, Null)
    [] outcome = "nokey" ->
         ProgressEntry(type, "error", index, total, Error("No key returned from API"))
    [] outcome = "threw" -> ProgressEntry(type, "generating", index, total, Null)

\* The progress entry a per-segment callback writes when its call settled
\* (lines 1628-1663, 1783-1819)
SettledEntry(type, outcome, index, total) ==
  CASE outcome = "ok" -> ProgressEntry(type, "completed", index, total, Null)
    [] outcome = "nokey" ->
         ProgressEntry(type, "error", index, total,
                       Error(IF type = "image" THEN "No image key returned from API"
                                               ELSE "No video key returned from API"))
    [] outcome = "threw" ->
         ProgressEntry(type, "error", index, total, Error("err.message"))

\* imagesMap / videosMap at the end of a batch: one entry per call that
\* returned a key (lines 1625, 1781)
ResultMap(kind, ids, st) ==
  [k \in {ids[j] : j \in {x \in Idx(ids) : st[x] = "ok"}} |->
     DownloadedUrl(S3Key("gen", kind, k))]

\* The message left by lines 1670-1676 of runImageGeneration:
\* showRequestFailed when a promise was rejected, then showCreditDeduction.
ImageBatchMessage(st, before) ==
  LET afterFailed ==
        IF \E j \in Idx(st) : PromiseStatus(st[j]) = "rejected"
          THEN RequestFailed("Image Generation") ELSE before
  IN Deduction("Image Generation")

\* The message left by lines 1828-1831 of runVideoGeneration.
VideoBatchMessage(st, before) ==
  IF Len(st) > 0 THEN Deduction("Video Generation") ELSE before

\* (variant: resolves as soon as one promise has settled, like Promise.race)
AnySettled(st) == \E j \in Idx(st) : st[j] # "inflight"

\* Promise.allSettled resolves when no promise of the batch is pending
AllSettled(st) == \A j \in Idx(st) : st[j] # "inflight"

\* One per-segment image call settles with the given outcome (lines
\* 1615-1665).  When it is the last of its batch, Promise.allSettled
\* resolves and runImageGeneration runs to its end in the same task (lines
\* 1669-1693, 1699-1701), followed by the statement after the await of
\* handleRedoWithModel (line 1482).
ImageCallSettle(r, j, outcome) ==
  /\ ChatStep
  /\ r \in Idx(imgRuns)
  /\ j \in Idx(imgRuns[r].st)
  /\ imgRuns[r].st[j] = "inflight"
  /\ LET run == imgRuns[r]
         oid == run.script.oid
         i == run.targets[j]
         id == run.script.segments[i].id
         key == S3Key("gen", "image", id)
         Write(h) == IF outcome = "ok" THEN WriteS3Key(h, oid, i, key) ELSE h
         st2 == [run.st EXCEPT ![j] = outcome]
         run2 == [run EXCEPT !.script = Write(run.script), !.st = st2]
         runs2 == [k \in Idx(imgRuns) |->
                     IF k = r THEN run2
                     ELSE [imgRuns[k] EXCEPT !.script = Write(imgRuns[k].script)]]
         sel2 == Write(selectedScript)
         scripts2 == IF scripts = Null THEN Null
                     ELSE [response1 |-> Write(scripts.response1),
                           response2 |-> Write(scripts.response2)]
         progress2 == UpdateProgress(generationProgress, id,
                          SettledEntry("image", outcome, j, Len(run.targets)))
         ids == TargetIds(run.script, run.targets)
         call == [id |-> id, ids |-> ids, st |-> st2]
     IN /\ generationProgress' = progress2
        /\ scripts' = scripts2
        /\ IF AllSettled(st2)
             THEN LET imagesMap == ResultMap("image", ids, st2)
                      segmentsWithS3Key == run2.script.segments
                      newSel == Script(FreshOid(1), segmentsWithS3Key)
                  IN /\ imgRuns' = RemoveAt(runs2, r)
                     /\ creditDeductionMessage' =
                          ImageBatchMessage(st2, creditDeductionMessage)
                     /\ generatedImages' = imagesMap
                     /\ selectedScript' = newSel
                     /\ stepStatus' =
                          StepStatusEffect(UpdateStepStatus(stepStatus, 4, "done"), TRUE,
                                           selectedProject, concepts, selectedConcept,
                                           newSel, imagesMap, generatedVideos)
                     /\ currentStep' = 5
                     /\ loading' = FALSE
                     /\ redoStepId' = IF run.redo THEN Null ELSE redoStepId
                     /\ last' = Last("runImageGeneration.done", call, outcome)
             ELSE /\ imgRuns' = runs2
                  /\ selectedScript' = sel2
                  /\ UNCHANGED <<creditDeductionMessage, generatedImages, stepStatus,
                                 currentStep, loading, redoStepId>>
                  /\ last' = Last("runImageGeneration.call", call, outcome)
  /\ UNCHANGED <<prompt, selectedProject, concepts, selectedConcept, showRedoModal,
                 error, generatedVideos, cwRuns, sgRuns, vidRuns, loads, started>>

\* One per-segment video call settles (lines 1768-1821); the last one ends
\* the batch (lines 1825-1835, 1841-1843).
VideoCallSettle(r, j, outcome) ==
  /\ ChatStep
  /\ r \in Idx(vidRuns)
  /\ j \in Idx(vidRuns[r].st)
  /\ vidRuns[r].st[j] = "inflight"
  /\ LET run == vidRuns[r]
         id == run.ids[j]
         st2 == [run.st EXCEPT ![j] = outcome]
         progress2 == UpdateProgress(generationProgress, id,
                          SettledEntry("video", outcome, j, Len(run.ids)))
         call == [id |-> id, ids |-> run.ids, st |-> st2]
     IN /\ generationProgress' = progress2
        /\ IF AllSettled(st2)
             THEN LET videosMap == ResultMap("video", run.ids, st2)
                  IN /\ vidRuns' = RemoveAt(vidRuns, r)
                     /\ creditDeductionMessage' =
                          VideoBatchMessage(st2, creditDeductionMessage)
                     /\ generatedVideos' = videosMap
                     /\ stepStatus' =
                          StepStatusEffect(UpdateStepStatus(stepStatus, 5, "done"), TRUE,
                                           selectedProject, concepts, selectedConcept,
                                           selectedScript, generatedImages, videosMap)
                     /\ loading' = FALSE
                     /\ redoStepId' = IF run.redo THEN Null ELSE redoStepId
                     /\ last' = Last("runVideoGeneration.done", call, outcome)
             ELSE /\ vidRuns' = [vidRuns EXCEPT ![r].st = st2]
                  /\ UNCHANGED <<creditDeductionMessage, generatedVideos, stepStatus,
                                 loading, redoStepId>>
                  /\ last' = Last("runVideoGeneration.call", call, outcome)
  /\ UNCHANGED <<prompt, selectedProject, currentStep, dataVars, showRedoModal,
                 error, cwRuns, sgRuns, imgRuns, loads, started>>

\* ------------------------------------------------------- project change
\* resetFlow (lines 1298-1318)
ResetFlow ==
  /\ currentStep' = 0
  /\ stepStatus' = AllPending
  /\ concepts' = Null
  /\ selectedConcept' = Null
  /\ scripts' = Null
  /\ selectedScript' = Null
  /\ generatedImages' = EmptyMap
  /\ generatedVideos' = EmptyMap
  /\ generationProgress' = EmptyMap
  /\ selectedImageModel' = GetDefaultModel("IMAGE")
  /\ selectedVideoModel' = GetDefaultModel("VIDEO")

\* loadProjectData up to its await (lines 1984-2006), called by the
\* selectedProject effect (lines 1219-1225) with the new project p.
LoadProjectData(p) ==
  /\ MayStart
  /\ started' = started + 1
  /\ loading' = TRUE
  /\ error' = Null
  /\ loads' = Append(loads, [proj |-> p])

\* The storage listener (lines 1175-1197) reads the selected project p from
\* localStorage.  A project read from storage is a new object, so the
\* selectedProject effect runs: loadProjectData for a project, resetFlow for
\* none; then the step status effect runs (it returns at once for no
\* project).  Reading null while no project is selected changes nothing.
HandleStorage(p) ==
  /\ ChatStorageStep(p)
  /\ selectedProject' = p
  /\ storedVideosMap' = CachedVideosMap
  /\ IF p = Null
       THEN /\ selectedProject # Null
            /\ ResetFlow
            /\ UNCHANGED <<loading, error, loads, started>>
       ELSE /\ LoadProjectData(p)
            /\ stepStatus' = DerivedStepStatus(concepts, selectedConcept, selectedScript,
                                               generatedImages, generatedVideos)
            /\ UNCHANGED <<currentStep, dataVars, generatedVideos, generationProgress,
                           modelVars>>
  /\ UNCHANGED <<prompt, modalVars, creditDeductionMessage,
                 cwRuns, sgRuns, imgRuns, vidRuns>>
  /\ last' = Last("handleStorage", p, "none")

\* handleCreateProjectModal after projectApi.createProject resolved with
\* the new project p (lines 2147-2153): the project is selected and the
\* flow reset in one batch, then the effects run as above.
HandleCreateProjectModal(p) ==
  /\ ChatStorageStep(p)
  /\ UNCHANGED storedVideosMap
  /\ PageReachable
  /\ p # selectedProject
  /\ selectedProject' = p
  /\ ResetFlow
  /\ LoadProjectData(p)
  /\ UNCHANGED <<prompt, modalVars, creditDeductionMessage,
                 cwRuns, sgRuns, imgRuns, vidRuns>>
  /\ last' = Last("handleCreateProjectModal", p, "none")

\* The image loop of loadProjectData (lines 2059-2075): the URL map ...
RECURSIVE LoadedImagesMap(_, _, _)
LoadedImagesMap(m, imgs, i) ==
  IF i > Len(imgs) THEN m
  ELSE LoadedImagesMap(Put(m, imgs[i].uuid,
                           IF imgs[i].s3Key # Null THEN CloudfrontUrl(imgs[i].s3Key)
                                                   ELSE imgs[i].url),
                       imgs, i + 1)

\* ... and the s3Key it writes into the segment found by
\* segments.find(seg => seg.id == segmentId), when that has none yet.
RECURSIVE LoadedSegments(_, _, _)
LoadedSegments(segs, imgs, i) ==
  IF i > Len(imgs) THEN segs
  ELSE LET hit == {k \in Idx(segs) : segs[k].id = imgs[i].uuid}
           segs2 ==
             IF hit = {} THEN segs
             ELSE LET k == CHOOSE x \in hit : \A y \in hit : x <= y
                  IN IF segs[k].s3Key = Null
                       THEN [segs EXCEPT ![k].s3Key = imgs[i].s3Key]
                       ELSE segs
       IN LoadedSegments(segs2, imgs, i + 1)

\* The video loop (lines 2086-2101)
RECURSIVE LoadedVideosMap(_, _, _)
LoadedVideosMap(m, vids, i) ==
  IF i > Len(vids) THEN m
  ELSE LoadedVideosMap(Put(m, vids[i].uuid, CloudfrontUrl(vids[i].s3Key)), vids, i + 1)

\* loadProjectData after Promise.all resolved with the data d (lines
\* 2016-2115, 2120-2122).  The function installs d whatever project is
\* selected by now; the step status effect then runs for the project
\* selected by now.
LoadResolve(r, d) ==
  /\ showChat
  /\ UNCHANGED <<showChat, storedProject, flowVars, gestures, modelVars, redoModels>>
  /\ r \in Idx(loads)
  /\ loads' = RemoveAt(loads, r)
  /\ LET c == IF Len(d.concepts) > 0 THEN Array(d.concepts) ELSE Null
         sel == IF Len(d.segments) > 0
                  THEN Script(FreshOid(1), LoadedSegments(d.segments, d.images, 1))
                  ELSE Null
         gi == LoadedImagesMap(EmptyMap, d.images, 1)
         gv == LoadedVideosMap(EmptyMap, d.videos, 1)
     IN /\ concepts' = c
        /\ selectedScript' = sel
        /\ generatedImages' = gi
        /\ generatedVideos' = gv
        /\ storedVideosMap' = gv
        /\ selectedConcept' = Null
        /\ scripts' = Null
        /\ stepStatus' = StepStatusEffect(stepStatus, TRUE, selectedProject,
                                          c, Null, sel, gi, gv)
  /\ loading' = FALSE
  /\ UNCHANGED <<prompt, selectedProject, currentStep, modalVars, error,
                 generationProgress, creditDeductionMessage,
                 cwRuns, sgRuns, imgRuns, vidRuns, started>>
  /\ last' = Last("loadProjectData", d, "ok")

\* (variant: the finally block is missing)
LoadRejectKeepsLoading(r) ==
  /\ ChatStep
  /\ r \in Idx(loads)
  /\ loads' = RemoveAt(loads, r)
  /\ error' = Error("Failed to load project data. Please try again.")
  /\ UNCHANGED <<prompt, selectedProject, currentStep, dataVars, modalVars,
                 stepStatus, generationProgress, creditDeductionMessage, loading,
                 generatedVideos, cwRuns, sgRuns, imgRuns, vidRuns, started>>
  /\ last' = Last("loadProjectData", Null, "failed")

\* ... after Promise.all rejected (lines 2117-2122)
LoadReject(r) ==
  /\ ChatStep
  /\ r \in Idx(loads)
  /\ loads' = RemoveAt(loads, r)
  /\ error' = Error("Failed to load project data. Please try again.")
  /\ loading' = FALSE
  /\ UNCHANGED <<prompt, selectedProject, currentStep, dataVars, modalVars,
                 stepStatus, generationProgress, creditDeductionMessage,
                 generatedVideos, cwRuns, sgRuns, imgRuns, vidRuns, started>>
  /\ last' = Last("loadProjectData", Null, "failed")

\* ============================================================ flow editor
\* useAuth (line 29): the model follows the session of a signed-in user
isAuthenticated == TRUE

NoProjectError == Error("No project selected. Please select a project first.")
\* (variant: the catch block reports nothing)
NoFetchError == Null
FetchFailedError == Error("Failed to fetch project data")

\* ------------------------------------------------ data of the flow editor
\* The rows the project service returns to the flow editor, with the
\* fields flowData reads.  isPrimary is a boolean or missing.
Flag(b) == [flag |-> b]

SegmentRow(n) ==
  [id |-> BareKey(n), segmentId |-> <<>>, visual |-> TextStr, animation |-> TextStr]

ImageRow(id, uuid, isPrimary) ==
  [id |-> id, uuid |-> uuid, success |-> TRUE,
   s3Key |-> S3Key("server", "image", id), isPrimary |-> isPrimary]

\* imageS3Key is the key of the image the video was made from, or missing
VideoRow(id, uuid, imageS3Key) ==
  [id |-> id, uuid |-> uuid, success |-> TRUE,
   videoFiles |-> <<[s3Key |-> S3Key("server", "video", id)]>>,
   imageS3Key |-> imageS3Key]

FlowProjectData(segs, imgs, vids) ==
  [segments |-> segs, images |-> imgs, videos |-> vids]

\* useState initial value of allProjectData (lines 47-51)
NoFlowData == FlowProjectData(<<>>, <<>>, <<>>)

SegmentRows == [i \in 1..MaxSegs |-> SegmentRow(i)]

\* A segmentation whose first segment has one image and no video
StoredWithImage ==
  FlowProjectData(SegmentRows, <<ImageRow(<<"a">>, SegKey(1), Null)>>, <<>>)

\* The uuid of an image left from a segment that is no longer in the
\* segmentation
OrphanUuid == <<"seg", "9">>

\* What the three requests of a refresh may return: nothing; a
\* segmentation whose first segment has one image and no video; the same
\* with a second image of the first segment, flagged primary, an image
\* stored for a segment the segmentation does not have, a video
\* stored for the segment and a video stored for the second image (uuid
\* seg-1-<image id>); a segmentation whose first segment has an image
\* that the chat workflow generated (its uuid is the id of the segment,
\* line 1618), a second image flagged primary, and for each of the two
\* images a video that handleCreateNewVideo created (uuid
\* seg-1-<timestamp>, line 494).
FlowServerData ==
  {NoFlowData,
   StoredWithImage,
   FlowProjectData(SegmentRows,
                   <<ImageRow(<<"a">>, SegKey(1), Null),
                     ImageRow(<<"b">>, <<"seg", "1", "7">>, Flag(TRUE)),
                     ImageRow(<<"c">>, OrphanUuid, Null)>>,
                   <<VideoRow(<<"v">>, SegKey(1), Null),
                     VideoRow(<<"u">>, <<"seg", "1", "b">>, S3Key("server", "image", <<"b">>))>>),
   FlowProjectData(SegmentRows,
                   <<ImageRow(<<"a">>, BareKey(1), Null),
                     ImageRow(<<"b">>, <<"seg", "1", "7">>, Flag(TRUE))>>,
                   <<VideoRow(<<"w">>, <<"seg", "1", "7">>, S3Key("server", "image", <<"a">>)),
                     VideoRow(<<"x">>, <<"seg", "1", "8">>, S3Key("server", "image", <<"b">>))>>)}

\* ---------------------------------------------------------------- flowData
\* \d+ on one part of an identifier
NumberParts == {ToString(n) : n \in 0..9}

\* img.uuid.replace(/^seg-(\d+)(?:-\d+)?$/, '$1')  (line 151)
ImageSegmentId(uuid) ==
  IF /\ Len(uuid) \in {2, 3}
     /\ uuid[1] = "seg"
     /\ \A k \in 2..Len(uuid) : uuid[k] \in NumberParts
    THEN <<uuid[2]>>
    ELSE uuid

\* video.uuid.replace(/^seg-/, '')  (line 202)
VideoSegmentId(uuid) ==
  IF Len(uuid) > 1 /\ uuid[1] = "seg" THEN Tail(uuid) ELSE uuid

\* seg.segmentId || seg.id  (line 135)
FlowSegments(rows) ==
  [i \in Idx(rows) |->
     [rows[i] EXCEPT !.id = IF Truthy(rows[i].segmentId)
                              THEN rows[i].segmentId ELSE rows[i].id]]

\* img.success && img.s3Key && img.uuid  (line 149)
ValidImageRow(img) == img.success /\ img.s3Key # Null /\ Truthy(img.uuid)

\* The entry pushed for an image row (lines 159-167): the flag of the
\* backend when it is a boolean, else whether the uuid has no dash
ImageEntry(img) ==
  [id |-> img.id, url |-> CloudfrontUrl(img.s3Key), s3Key |-> img.s3Key,
   uuid |-> img.uuid,
   isPrimary |-> IF img.isPrimary # Null THEN img.isPrimary.flag
                                         ELSE Len(img.uuid) = 1]

\* The entries of the valid rows of one segment, in the order of the rows
RECURSIVE ImagesOfSegment(_, _, _)
ImagesOfSegment(rows, segmentId, i) ==
  IF i > Len(rows) THEN <<>>
  ELSE (IF ValidImageRow(rows[i]) /\ ImageSegmentId(rows[i].uuid) = segmentId
          THEN <<ImageEntry(rows[i])>> ELSE <<>>)
       \o ImagesOfSegment(rows, segmentId, i + 1)

\* segmentImages.sort(...) of lines 176-180: primary images first, the
\* order kept otherwise (Array.prototype.sort is stable)
IsPrimaryEntry(e) == e.isPrimary
IsSecondaryEntry(e) == ~e.isPrimary
SortPrimaryFirst(entries) ==
  SelectSeq(entries, IsPrimaryEntry) \o SelectSeq(entries, IsSecondaryEntry)

\* allImagesBySegment after the sort (lines 145-181)
AllImagesBySegment(rows) ==
  [segmentId \in {ImageSegmentId(rows[i].uuid) :
                    i \in {x \in Idx(rows) : ValidImageRow(rows[x])}} |->
     SortPrimaryFirst(ImagesOfSegment(rows, segmentId, 1))]

\* video.success && video.uuid && video.videoFiles[0].s3Key (lines 198-201)
ValidVideoRow(video) ==
  /\ video.success
  /\ Truthy(video.uuid)
  /\ Len(video.videoFiles) > 0
  /\ video.videoFiles[1].s3Key # Null

\* The loop of lines 197-210: a later row replaces an earlier one stored
\* under the same key
RECURSIVE CanonicalVideos(_, _, _)
CanonicalVideos(m, rows, i) ==
  IF i > Len(rows) THEN m
  ELSE CanonicalVideos(
         IF ValidVideoRow(rows[i])
           THEN Put(m, VideoSegmentId(rows[i].uuid),
                    [url |-> CloudfrontUrl(rows[i].videoFiles[1].s3Key),
                     id |-> rows[i].id])
           ELSE m,
         rows, i + 1)

\* temporaryVideos.forEach((videoUrl, key) => videos[key] = videoUrl)
\* (lines 217-219)
MergeTemporary(videos, temp) ==
  [k \in (DOMAIN videos) \cup (DOMAIN temp) |->
     IF k \in DOMAIN temp THEN temp[k] ELSE videos[k]]

\* flowData (lines 129-223)
FlowData(apd, temp) ==
  LET all == AllImagesBySegment(apd.images)
      canonical == CanonicalVideos(EmptyMap, apd.videos, 1)
  IN [segments |-> FlowSegments(apd.segments),
      images |-> [k \in DOMAIN all |-> all[k][1].url],
      imageDetails |-> [k \in DOMAIN all |->
                          [id |-> all[k][1].id, s3Key |-> all[k][1].s3Key,
                           allImages |-> all[k]]],
      videos |-> MergeTemporary([k \in DOMAIN canonical |-> canonical[k].url], temp),
      videoDetails |-> [k \in DOMAIN canonical |-> [id |-> canonical[k].id]]]

flowData == FlowData(allProjectData, temporaryVideos)

\* ------------------------------------------------------------ the canvas
\* The canvas is drawn when nothing else is (lines 953-1041).  The test of
\* line 983 reads flowData.segments, which has one element per element of
\* allProjectData.segments (line 133).
CanvasShown ==
  ~flowLoading /\ flowError = Null /\ isAuthenticated /\ Len(allProjectData.segments) > 0

\* (variant: the key is the id of the segment alone)
SegmentOnlyKey(segmentId, imageId) == segmentId

\* `${segment.id}-${image.id}`  (lines 510, 617)
VideoKey(segmentId, imageId) == segmentId \o imageId

\* The nodes createFlowElements draws from the flow data fd (lines
\* 534-677): an add-image node per segment, ...
AddImageNodesOf(fd) == {fd.segments[i].id : i \in Idx(fd.segments)}

\* ... an image node per image of a segment that has images, ...
ImageNodesOf(fd) ==
  UNION {{[segmentId |-> segmentId, imageId |-> fd.imageDetails[segmentId].allImages[j].id] :
            j \in Idx(fd.imageDetails[segmentId].allImages)} :
         segmentId \in AddImageNodesOf(fd) \cap DOMAIN fd.images}

\* (variant: the video of the segment is not looked up)
HasOwnVideo(fd, n) == VideoKey(n.segmentId, n.imageId) \in DOMAIN fd.videos

\* flowData.videos[`${segment.id}-${image.id}`] || flowData.videos[segment.id]
\* (line 617)
HasVideo(fd, n) ==
  \/ VideoKey(n.segmentId, n.imageId) \in DOMAIN fd.videos
  \/ n.segmentId \in DOMAIN fd.videos

\* videoDetails[`${segment.id}-${image.id}`]?.id || videoDetails[segment.id]?.id
\* (line 618); undefined for a preview
VideoIdOf(fd, n) ==
  IF VideoKey(n.segmentId, n.imageId) \in DOMAIN fd.videoDetails
    THEN fd.videoDetails[VideoKey(n.segmentId, n.imageId)].id
    ELSE IF n.segmentId \in DOMAIN fd.videoDetails
      THEN fd.videoDetails[n.segmentId].id
      ELSE <<>>

\* ... and next to each image a video node, with the id of its video, when
\* the image has a video, an add-video node when it has none
AddImageNodes == AddImageNodesOf(flowData)
ImageNodes == ImageNodesOf(flowData)
VideoNodes ==
  LET fd == flowData
  IN {[segmentId |-> n.segmentId, imageId |-> n.imageId, videoId |-> VideoIdOf(fd, n)] :
        n \in {x \in ImageNodesOf(fd) : HasVideo(fd, x)}}
AddVideoNodes ==
  LET fd == flowData
  IN {n \in ImageNodesOf(fd) : ~HasVideo(fd, n)}

\* ------------------------------------------------------------- operations
\* A step of FlowWidget: App shows the flow editor (line 29 of App), and
\* the step writes nothing of the chat workflow.
FlowStep == ~showChat /\ UNCHANGED <<showChat, chatVars>>

\* An operation suspended at an await: the handler, the await it is at (a
\* generation call, setPrimaryImage, the three requests of a refresh, the
\* timer of handleFlowAction) and its arguments
Op(op, stage, segmentId, id) ==
  [op |-> op, stage |-> stage, segmentId |-> segmentId, id |-> id]

MayStartOp == Len(flowOps) < MaxInFlight

\* The finally block of a per-entity handler (lines 286-292, 345-351,
\* 403-409, 524-530): the id leaves the in-flight set of the handler
Released(op, inFlight, rec) == IF rec.op = op THEN inFlight \ {rec.id} ELSE inFlight

ReleaseId(rec) ==
  /\ regeneratingImages' = Released("handleRegenerateImage", regeneratingImages, rec)
  /\ regeneratingVideos' = Released("handleRegenerateVideo", regeneratingVideos, rec)
  /\ creatingImages' = Released("handleCreateNewImage", creatingImages, rec)
  /\ creatingVideos' = Released("handleCreateNewVideo", creatingVideos, rec)

\* The message of the catch block of a handler (lines 285, 344, 402, 456,
\* 523)
FailureMessage(op) ==
  CASE op = "handleRegenerateImage" -> "Failed to regenerate image: err.message"
    [] op = "handleRegenerateVideo" -> "Failed to regenerate video: err.message"
    [] op = "handleCreateNewImage" -> "Failed to create new image: err.message"
    [] op = "handleCreateNewVideo" -> "Failed to create new video: err.message"
    [] op = "handleMakePrimary" -> "Failed to make image primary: err.message"

\* (variant: the handler ends without the refresh)
SkipRefresh(k) ==
  /\ flowOps' = RemoveAt(flowOps, k)
  /\ ReleaseId(flowOps[k])
  /\ UNCHANGED <<flowLoading, flowError, allProjectData, temporaryVideos>>

\* `await refreshProjectData()` by the operation at index k (lines 54-91):
\* with no project in localStorage it sets the error and returns, and the
\* handler runs to its end; else it sets loading and suspends at
\* Promise.all.
AwaitRefresh(k) ==
  IF storedProject = Null
    THEN /\ flowError' = NoProjectError
         /\ flowOps' = RemoveAt(flowOps, k)
         /\ ReleaseId(flowOps[k])
         /\ UNCHANGED <<flowLoading, allProjectData, temporaryVideos>>
    ELSE /\ flowLoading' = TRUE
         /\ flowOps' = [flowOps EXCEPT ![k].stage = "refresh"]
         /\ UNCHANGED <<flowError, allProjectData, flowSets, temporaryVideos>>

\* handleRegenerateImage up to its first await (lines 226-275), called by
\* an image node; hasKey tells that the node passes the s3Key of an edit,
\* in which case no image is generated.
HandleRegenerateImage(segmentId, imageId, hasKey) ==
  /\ FlowStep
  /\ CanvasShown
  /\ UNCHANGED storedProject
  /\ IF ~isAuthenticated \/ imageId \in regeneratingImages
       THEN /\ UNCHANGED flowVars
            /\ last' = Last("handleRegenerateImage",
                            [segmentId |-> segmentId, id |-> imageId], "busy")
       ELSE IF storedProject = Null
         THEN /\ flowError' = NoProjectError
              /\ UNCHANGED <<flowLoading, allProjectData, flowSets, temporaryVideos, flowOps>>
              /\ last' = Last("handleRegenerateImage",
                              [segmentId |-> segmentId, id |-> imageId], "rejected")
         ELSE /\ MayStartOp
              /\ regeneratingImages' = regeneratingImages \cup {imageId}
              /\ flowLoading' = (flowLoading \/ hasKey)
              /\ flowOps' = Append(flowOps,
                   Op("handleRegenerateImage", IF hasKey THEN "refresh" ELSE "generate",
                      segmentId, imageId))
              /\ UNCHANGED <<flowError, allProjectData, regeneratingVideos,
                             creatingImages, creatingVideos, temporaryVideos>>
              /\ last' = Last("handleRegenerateImage",
                              [segmentId |-> segmentId, id |-> imageId],
                              IF hasKey THEN "refreshing" ELSE "started")

\* handleRegenerateVideo up to its await (lines 296-328), called by a video
\* node with the id of its video
HandleRegenerateVideo(segmentId, videoId) ==
  /\ FlowStep
  /\ CanvasShown
  /\ UNCHANGED storedProject
  /\ IF ~isAuthenticated \/ videoId \in regeneratingVideos
       THEN /\ UNCHANGED flowVars
            /\ last' = Last("handleRegenerateVideo",
                            [segmentId |-> segmentId, id |-> videoId], "busy")
       ELSE IF storedProject = Null
         THEN /\ flowError' = NoProjectError
              /\ UNCHANGED <<flowLoading, allProjectData, flowSets, temporaryVideos, flowOps>>
              /\ last' = Last("handleRegenerateVideo",
                              [segmentId |-> segmentId, id |-> videoId], "rejected")
         ELSE /\ MayStartOp
              /\ regeneratingVideos' = regeneratingVideos \cup {videoId}
              /\ flowOps' = Append(flowOps,
                   Op("handleRegenerateVideo", "generate", segmentId, videoId))
              /\ UNCHANGED <<flowLoading, flowError, allProjectData, regeneratingImages,
                             creatingImages, creatingVideos, temporaryVideos>>
              /\ last' = Last("handleRegenerateVideo",
                              [segmentId |-> segmentId, id |-> videoId], "started")

\* handleCreateNewImage up to its await (lines 355-388), called by an
\* add-image node
HandleCreateNewImage(segmentId) ==
  /\ FlowStep
  /\ CanvasShown
  /\ UNCHANGED storedProject
  /\ IF ~isAuthenticated
       THEN /\ UNCHANGED flowVars
            /\ last' = Last("handleCreateNewImage",
                            [segmentId |-> segmentId, id |-> segmentId], "busy")
       ELSE IF storedProject = Null
         THEN /\ flowError' = NoProjectError
              /\ UNCHANGED <<flowLoading, allProjectData, flowSets, temporaryVideos, flowOps>>
              /\ last' = Last("handleCreateNewImage",
                              [segmentId |-> segmentId, id |-> segmentId], "rejected")
         ELSE /\ MayStartOp
              /\ creatingImages' = creatingImages \cup {segmentId}
              /\ flowOps' = Append(flowOps,
                   Op("handleCreateNewImage", "generate", segmentId, segmentId))
              /\ UNCHANGED <<flowLoading, flowError, allProjectData, regeneratingImages,
                             regeneratingVideos, creatingVideos, temporaryVideos>>
              /\ last' = Last("handleCreateNewImage",
                              [segmentId |-> segmentId, id |-> segmentId], "started")

\* imageDetail?.allImages?.find(img => img.id === imageId)  (lines 485-486)
TargetImageFound(segmentId, imageId) ==
  LET imageDetails == flowData.imageDetails
  IN /\ segmentId \in DOMAIN imageDetails
     /\ \E j \in Idx(imageDetails[segmentId].allImages) :
          imageDetails[segmentId].allImages[j].id = imageId

\* handleCreateNewVideo up to its await (lines 461-503), called by an
\* add-video node
HandleCreateNewVideo(segmentId, imageId) ==
  /\ FlowStep
  /\ CanvasShown
  /\ UNCHANGED storedProject
  /\ IF ~isAuthenticated \/ imageId \in creatingVideos
       THEN /\ UNCHANGED flowVars
            /\ last' = Last("handleCreateNewVideo",
                            [segmentId |-> segmentId, id |-> imageId], "busy")
       ELSE IF storedProject = Null
         THEN /\ flowError' = NoProjectError
              /\ UNCHANGED <<flowLoading, allProjectData, flowSets, temporaryVideos, flowOps>>
              /\ last' = Last("handleCreateNewVideo",
                              [segmentId |-> segmentId, id |-> imageId], "rejected")
         ELSE IF ~TargetImageFound(segmentId, imageId)
           THEN /\ flowError' = Error("Failed to create new video: Image not found")
                /\ UNCHANGED <<flowLoading, allProjectData, flowSets, temporaryVideos,
                               flowOps>>
                /\ last' = Last("handleCreateNewVideo",
                                [segmentId |-> segmentId, id |-> imageId], "failed")
           ELSE /\ MayStartOp
                /\ creatingVideos' = creatingVideos \cup {imageId}
                /\ flowOps' = Append(flowOps,
                     Op("handleCreateNewVideo", "generate", segmentId, imageId))
                /\ UNCHANGED <<flowLoading, flowError, allProjectData, regeneratingImages,
                               regeneratingVideos, creatingImages, temporaryVideos>>
                /\ last' = Last("handleCreateNewVideo",
                                [segmentId |-> segmentId, id |-> imageId], "started")

\* handleMakePrimary up to its await (lines 413-443), called by an image
\* node with the images of its segment
HandleMakePrimary(segmentId, imageId) ==
  /\ FlowStep
  /\ CanvasShown
  /\ UNCHANGED storedProject
  /\ IF ~isAuthenticated \/ ~TargetImageFound(segmentId, imageId)
       THEN /\ UNCHANGED flowVars
            /\ last' = Last("handleMakePrimary",
                            [segmentId |-> segmentId, id |-> imageId], "busy")
       ELSE IF storedProject = Null
         THEN /\ flowError' = NoProjectError
              /\ UNCHANGED <<flowLoading, allProjectData, flowSets, temporaryVideos, flowOps>>
              /\ last' = Last("handleMakePrimary",
                              [segmentId |-> segmentId, id |-> imageId], "rejected")
         ELSE /\ MayStartOp
              /\ flowOps' = Append(flowOps,
                   Op("handleMakePrimary", "setPrimary", segmentId, imageId))
              /\ UNCHANGED <<flowLoading, flowError, allProjectData, flowSets,
                             temporaryVideos>>
              /\ last' = Last("handleMakePrimary",
                              [segmentId |-> segmentId, id |-> imageId], "started")

\* handleAfterImageEdit (lines 680-682), called by an image node or a video
\* node after an edit: refreshProjectData up to its await
HandleAfterImageEdit ==
  /\ FlowStep
  /\ CanvasShown
  /\ ImageNodes # {}
  /\ UNCHANGED storedProject
  /\ IF storedProject = Null
       THEN /\ flowError' = NoProjectError
            /\ UNCHANGED <<flowLoading, allProjectData, flowSets, temporaryVideos, flowOps>>
            /\ last' = Last("handleAfterImageEdit", Null, "rejected")
       ELSE /\ MayStartOp
            /\ flowLoading' = TRUE
            /\ flowOps' = Append(flowOps, Op("handleAfterImageEdit", "refresh", <<>>, <<>>))
            /\ UNCHANGED <<flowError, allProjectData, flowSets, temporaryVideos>>
            /\ last' = Last("handleAfterImageEdit", Null, "refreshing")

\* handleFlowAction up to its await (lines 774-781), behind the buttons
\* "Refresh Data" and "Clear All" (lines 923-947, 993-996)
FlowActions == {"Refresh Data", "Clear All"}

HandleFlowAction(action) ==
  /\ FlowStep
  /\ isAuthenticated
  /\ ~flowLoading
  /\ MayStartOp
  /\ flowLoading' = TRUE
  /\ flowError' = Null
  /\ flowOps' = Append(flowOps, Op("handleFlowAction", "timer", <<>>, <<>>))
  /\ UNCHANGED <<storedProject, allProjectData, flowSets, temporaryVideos>>
  /\ last' = Last("handleFlowAction", action, "started")

\* ... after the timer (lines 783-794)
FlowActionDone(k) ==
  /\ FlowStep
  /\ k \in Idx(flowOps)
  /\ flowOps[k].stage = "timer"
  /\ flowLoading' = FALSE
  /\ flowOps' = RemoveAt(flowOps, k)
  /\ UNCHANGED <<storedProject, flowError, allProjectData, flowSets, temporaryVideos>>
  /\ last' = Last("handleFlowAction.done", Null, "ok")

\* The Dismiss button of the error panel (lines 957-966)
DismissFlowError ==
  /\ FlowStep
  /\ ~flowLoading
  /\ flowError # Null
  /\ flowError' = Null
  /\ UNCHANGED <<storedProject, flowLoading, allProjectData, flowSets, temporaryVideos,
                 flowOps>>
  /\ last' = Last("dismissFlowError", Null, "none")

\* The "Clear Previews" button (lines 859, 876-883)
ClearPreviews ==
  /\ FlowStep
  /\ isAuthenticated
  /\ Len(allProjectData.segments) > 0
  /\ ~IsEmptyMap(temporaryVideos)
  /\ temporaryVideos' = EmptyMap
  /\ UNCHANGED <<storedProject, flowLoading, flowError, allProjectData, flowSets,
                 flowOps>>
  /\ last' = Last("clearPreviews", Null, "none")

\* Another page writes the project p to localStorage, or removes it.
\* FlowWidget has no storage listener: it reads the project at each
\* operation.
StorageChange(p) ==
  /\ FlowStep
  /\ p # storedProject
  /\ storedProject' = p
  /\ UNCHANGED flowVars
  /\ last' = Last("storage", p, "none")

\* The generation call of the operation at index k settles: it returned a
\* key, returned none, or threw.  handleRegenerateImage, handleRegenerateVideo
\* and handleCreateNewImage go on to the refresh whatever the response
\* holds (lines 268-275, 329-335, 389-392); handleCreateNewVideo stores a
\* preview when there is a key, and ends (lines 505-530).
GenerationSettle(k, outcome) ==
  /\ FlowStep
  /\ k \in Idx(flowOps)
  /\ flowOps[k].stage = "generate"
  /\ UNCHANGED storedProject
  /\ LET rec == flowOps[k]
         key == VideoKey(rec.segmentId, rec.id)
     IN IF outcome = "threw"
          THEN /\ flowError' = Error(FailureMessage(rec.op))
               /\ flowOps' = RemoveAt(flowOps, k)
               /\ ReleaseId(rec)
               /\ UNCHANGED <<flowLoading, allProjectData, temporaryVideos>>
          ELSE IF rec.op = "handleCreateNewVideo"
            THEN /\ temporaryVideos' =
                      IF outcome = "ok"
                        THEN Put(temporaryVideos, key,
                                 CloudfrontUrl(S3Key("gen", "video", key)))
                        ELSE temporaryVideos
                 /\ flowOps' = RemoveAt(flowOps, k)
                 /\ ReleaseId(rec)
                 /\ UNCHANGED <<flowLoading, flowError, allProjectData>>
            ELSE AwaitRefresh(k)
  /\ last' = Last("generationCall",
                  [op |-> flowOps[k].op, segmentId |-> flowOps[k].segmentId,
                   id |-> flowOps[k].id], outcome)

\* projectApi.setPrimaryImage of the operation at index k settles (lines
\* 443-457)
SetPrimarySettle(k, ok) ==
  /\ FlowStep
  /\ k \in Idx(flowOps)
  /\ flowOps[k].stage = "setPrimary"
  /\ UNCHANGED storedProject
  /\ IF ok
       THEN AwaitRefresh(k)
       ELSE /\ flowError' = Error(FailureMessage("handleMakePrimary"))
            /\ flowOps' = RemoveAt(flowOps, k)
            /\ UNCHANGED <<flowLoading, allProjectData, flowSets, temporaryVideos>>
  /\ last' = Last("setPrimaryImage",
                  [segmentId |-> flowOps[k].segmentId, id |-> flowOps[k].id],
                  IF ok THEN "ok" ELSE "threw")

\* The responses of the three requests: all with success = true, or one
\* of them with success = false and no data
Unsuccessful == {"none", "segmentations", "images", "videos"}

FlowResponses ==
  {[data |-> d, unsuccessful |-> "none"] : d \in FlowServerData}
    \cup {[data |-> StoredWithImage, unsuccessful |-> u] : u \in Unsuccessful}

\* What lines 98-110 (and 729-741) make of the three responses: the
\* segments of the first segmentation when that response has success and
\* data, imagesData?.data || [] and videosData?.data || [] otherwise
FetchedData(d, unsuccessful) ==
  FlowProjectData(IF unsuccessful = "segmentations" THEN <<>> ELSE d.segments,
                  IF unsuccessful = "images" THEN <<>> ELSE d.images,
                  IF unsuccessful = "videos" THEN <<>> ELSE d.videos)

\* The three requests of refreshProjectData or fetchAllProjectData resolved
\* with the data d (lines 93-114, 120, 724-745, 751); the handler that
\* awaited the refresh then runs to its end.
FetchResolve(k, d, unsuccessful) ==
  /\ FlowStep
  /\ k \in Idx(flowOps)
  /\ flowOps[k].stage = "refresh"
  /\ allProjectData' = FetchedData(d, unsuccessful)
  /\ flowLoading' = FALSE
  /\ flowOps' = RemoveAt(flowOps, k)
  /\ ReleaseId(flowOps[k])
  /\ UNCHANGED <<storedProject, flowError, temporaryVideos>>
  /\ last' = Last("refreshProjectData", flowOps[k].op,
                   IF unsuccessful = "none" THEN "ok" ELSE "unsuccessful")

\* ... one of the three was rejected (lines 116-120, 747-751)
FetchReject(k) ==
  /\ FlowStep
  /\ k \in Idx(flowOps)
  /\ flowOps[k].stage = "refresh"
  /\ flowError' = FetchFailedError
  /\ flowLoading' = FALSE
  /\ flowOps' = RemoveAt(flowOps, k)
  /\ ReleaseId(flowOps[k])
  /\ UNCHANGED <<storedProject, allProjectData, temporaryVideos>>
  /\ last' = Last("refreshProjectData", flowOps[k].op, "failed")

\* ------------------------------------------------------------------- App
\* useState initial values of FlowWidget (lines 30-51) followed by the
\* effect of the first render (lines 820-823): fetchAllProjectData up to
\* its await for the project p read from localStorage (lines 685-722).
\* mounted = false gives the values while the component is not mounted.
FlowInitial(mounted, p) ==
  /\ flowLoading = (mounted /\ p # Null)
  /\ flowError = IF mounted /\ p = Null THEN NoProjectError ELSE Null
  /\ allProjectData = NoFlowData
  /\ regeneratingImages = {}
  /\ regeneratingVideos = {}
  /\ creatingImages = {}
  /\ creatingVideos = {}
  /\ temporaryVideos = EmptyMap
  /\ flowOps = IF mounted /\ p # Null
                 THEN <<Op("fetchAllProjectData", "refresh", <<>>, <<>>)>> ELSE <<>>

\* setShowChat(v => !v) (line 44 of App) while the chat workflow is shown:
\* ChatWidgetSidebar is unmounted, its async functions write to no state
\* any more, and FlowWidget is mounted (its other variables have their
\* initial values already).
SwitchToFlow ==
  /\ showChat
  /\ showChat' = FALSE
  /\ UNCHANGED storedProject
  /\ selectedProject' = Null
  /\ prompt' = EmptyStr
  /\ loading' = FALSE
  /\ error' = Null
  /\ currentStep' = 0
  /\ stepStatus' = AllPending
  /\ concepts' = Null
  /\ selectedConcept' = Null
  /\ scripts' = Null
  /\ selectedScript' = Null
  /\ generatedImages' = EmptyMap
  /\ generatedVideos' = EmptyMap
  /\ storedVideosMap' = CachedVideosMap
  /\ generationProgress' = EmptyMap
  /\ showRedoModal' = FALSE
  /\ redoStepId' = Null
  /\ creditDeductionMessage' = Null
  /\ selectedImageModel' = GetDefaultModel("IMAGE")
  /\ selectedVideoModel' = GetDefaultModel("VIDEO")
  /\ redoImageModel' = GetDefaultModel("IMAGE")
  /\ redoVideoModel' = GetDefaultModel("VIDEO")
  /\ cwRuns' = <<>>
  /\ sgRuns' = <<>>
  /\ imgRuns' = <<>>
  /\ vidRuns' = <<>>
  /\ loads' = <<>>
  /\ started' = 0
  /\ gestures' = 0
  /\ flowLoading' = (storedProject # Null)
  /\ flowError' = IF storedProject = Null THEN NoProjectError ELSE Null
  /\ flowOps' = IF storedProject # Null
                  THEN <<Op("fetchAllProjectData", "refresh", <<>>, <<>>)>> ELSE <<>>
  /\ UNCHANGED <<allProjectData, flowSets, temporaryVideos>>
  /\ last' = Last("setShowChat", Null, "flow")

\* ... while the flow editor is shown: FlowWidget is unmounted and
\* ChatWidgetSidebar is mounted (lines 1076-1157, 1219-1225; its other
\* variables have their initial values already).
SwitchToChat ==
  /\ ~showChat
  /\ showChat' = TRUE
  /\ UNCHANGED storedProject
  /\ flowLoading' = FALSE
  /\ flowError' = Null
  /\ allProjectData' = NoFlowData
  /\ regeneratingImages' = {}
  /\ regeneratingVideos' = {}
  /\ creatingImages' = {}
  /\ creatingVideos' = {}
  /\ temporaryVideos' = EmptyMap
  /\ flowOps' = <<>>
  /\ selectedProject' = storedProject
  /\ loading' = (storedProject # Null)
  /\ loads' = IF storedProject # Null THEN <<[proj |-> storedProject]>> ELSE <<>>
  /\ started' = IF storedProject # Null THEN 1 ELSE 0
  /\ gestures' = 0
  /\ UNCHANGED <<prompt, error, currentStep, stepStatus, concepts, selectedConcept,
                 scripts, selectedScript, generatedImages, generatedVideos,
                 generationProgress, showRedoModal, redoStepId, creditDeductionMessage,
                 modelVars, redoModels, storedVideosMap, cwRuns, sgRuns, imgRuns, vidRuns>>
  /\ last' = Last("setShowChat", Null, "chat")

\* --------------------------------------------------------- specification
\* The application starts with the chat workflow (line 9 of App) and the
\* project found in localStorage.
Init ==
  /\ showChat = TRUE
  /\ storedProject \in Projects \cup {Null}
  /\ ChatInitial(storedProject)
  /\ FlowInitial(FALSE, storedProject)
  /\ last = [op |-> "init", arg |-> Null, res |-> "none"]

\* The state in which a session of the flow editor starts
FlowInit ==
  /\ showChat = FALSE
  /\ storedProject \in Projects \cup {Null}
  /\ ChatInitial(Null)
  /\ FlowInitial(TRUE, storedProject)
  /\ last = [op |-> "setShowChat", arg |-> Null, res |-> "flow"]

ChatNext ==
  \/ \E p \in Prompts : SetPrompt(p)
  \/ \E n \in Steps : HandleStepClick(n)
  \/ \E n \in Steps : HandleRedoStep(n)
  \/ CancelRedoModal
  \/ HandleRedoWithModel
  \/ GenerateImages
  \/ GenerateVideos
  \/ \E genType \in {"IMAGE", "VIDEO"} : \E m \in ModelsOf(genType) : SetSelectedModel(genType, m)
  \/ \E genType \in {"IMAGE", "VIDEO"} : \E m \in ModelsOf(genType) : SetRedoModel(genType, m)
  \/ \E c \in AllConcepts : HandleConceptSelect(c)
  \/ \E k \in {"response1", "response2"} : scripts # Null /\ HandleScriptSelect(scripts[k])
  \/ DismissError
  \/ ClearNotification
  \/ \E r \in 1..MaxInFlight, ok \in BOOLEAN : CwWebInfoSettle(r, ok)
  \/ \E r \in 1..MaxInFlight, cs \in ConceptLists : CwConceptsResolve(r, cs)
  \/ \E r \in 1..MaxInFlight : CwConceptsReject(r)
  \/ \E r \in 1..MaxInFlight, res \in ScriptResponses : SgResolve(r, res[1], res[2])
  \/ \E r \in 1..MaxInFlight : SgReject(r)
  \/ \E r \in 1..MaxInFlight, j \in 1..MaxSegs, o \in CallOutcomes : ImageCallSettle(r, j, o)
  \/ \E r \in 1..MaxInFlight, j \in 1..MaxSegs, o \in CallOutcomes : VideoCallSettle(r, j, o)
  \/ \E p \in Projects \cup {Null} : HandleStorage(p)
  \/ \E p \in Projects : HandleCreateProjectModal(p)
  \/ \E r \in 1..MaxInFlight, d \in ServerData : LoadResolve(r, d)
  \/ \E r \in 1..MaxInFlight : LoadReject(r)

FlowNext ==
  \/ \E n \in ImageNodes, hasKey \in BOOLEAN :
       HandleRegenerateImage(n.segmentId, n.imageId, hasKey)
  \/ \E n \in VideoNodes : HandleRegenerateVideo(n.segmentId, n.videoId)
  \/ \E segmentId \in AddImageNodes : HandleCreateNewImage(segmentId)
  \/ \E n \in AddVideoNodes : HandleCreateNewVideo(n.segmentId, n.imageId)
  \/ \E n \in ImageNodes : HandleMakePrimary(n.segmentId, n.imageId)
  \/ HandleAfterImageEdit
  \/ \E action \in FlowActions : HandleFlowAction(action)
  \/ \E k \in 1..MaxInFlight : FlowActionDone(k)
  \/ DismissFlowError
  \/ ClearPreviews
  \/ \E p \in Projects \cup {Null} : StorageChange(p)
  \/ \E k \in 1..MaxInFlight, o \in CallOutcomes : GenerationSettle(k, o)
  \/ \E k \in 1..MaxInFlight, ok \in BOOLEAN : SetPrimarySettle(k, ok)
  \/ \E k \in 1..MaxInFlight, r \in FlowResponses : FetchResolve(k, r.data, r.unsuccessful)
  \/ \E k \in 1..MaxInFlight : FetchReject(k)

Next ==
  \/ ChatNext
  \/ FlowNext
  \/ SwitchToFlow
  \/ SwitchToChat

ChatSpec == Init /\ [][ChatNext]_vars

FlowSpec == FlowInit /\ [][FlowNext]_vars

Spec == Init /\ [][Next]_vars

\* ------------------------------------------------------------ properties
\* The steps that settle one per-segment call of a batch, and the steps
\* that also end the batch.
ImageBatchEnd == "runImageGeneration.done"
VideoBatchEnd == "runVideoGeneration.done"
BatchEnds == {ImageBatchEnd, VideoBatchEnd}
CallSettles == {"runImageGeneration.call", "runVideoGeneration.call"} \cup BatchEnds

\* The ids of the calls of a batch with the given outcome
IdsWith(call, outcomes) ==
  {call.ids[j] : j \in {x \in Idx(call.ids) : call.st[x] \in outcomes}}
Succeeded(call) == IdsWith(call, {"ok"})
Failed(call) == IdsWith(call, {"nokey", "threw"})

\* C1: runImageGeneration and runVideoGeneration install their result map
\* (and runImageGeneration advances to step 5) in the step in which the
\* last launched call settles and in no earlier step of the batch; a call
\* that failed leaves the other calls of its batch in flight, and the map
\* installed holds exactly the segments whose call succeeded, so with one
\* failure among N calls the other N-1, whichever call failed.
C1_SettleAll ==
  [][/\ last'.op = "runImageGeneration.call" =>
          /\ generatedImages' = generatedImages
          /\ currentStep' = currentStep
          /\ stepStatus' = stepStatus
          /\ \E r \in Idx(imgRuns') : imgRuns'[r].st = last'.arg.st
     /\ last'.op = "runVideoGeneration.call" =>
          /\ generatedVideos' = generatedVideos
          /\ stepStatus' = stepStatus
          /\ \E r \in Idx(vidRuns') : vidRuns'[r].st = last'.arg.st
     /\ last'.op = ImageBatchEnd =>
          /\ \A j \in Idx(last'.arg.st) : last'.arg.st[j] # "inflight"
          /\ DOMAIN generatedImages' = Succeeded(last'.arg)
          /\ currentStep' = 5
     /\ last'.op = VideoBatchEnd =>
          /\ \A j \in Idx(last'.arg.st) : last'.arg.st[j] # "inflight"
          /\ DOMAIN generatedVideos' = Succeeded(last'.arg)
    ]_vars

\* A batch of MaxSegs calls has ended; its first call failed, all the
\* others succeeded and are in the installed map.
C1_Witness ==
  /\ last.op = ImageBatchEnd
  /\ Len(last.arg.ids) = MaxSegs
  /\ last.arg.st[1] = "threw"
  /\ \A j \in 2..MaxSegs : last.arg.st[j] = "ok"
  /\ DOMAIN generatedImages = {last.arg.ids[j] : j \in 2..MaxSegs}

\* C3: a step that settles the call of one segment leaves the progress
\* entry of every other segment as it was, and when the batch ends the
\* generated map and the progress entries of the batch are a function of
\* the outcomes of the calls alone, whatever the order in which they
\* settled.
C3_OrderIndependent ==
  [][last'.op \in CallSettles =>
       LET call == last'.arg
           kind == IF last'.op \in {"runImageGeneration.call", ImageBatchEnd}
                     THEN "image" ELSE "video"
           map == IF kind = "image" THEN generatedImages' ELSE generatedVideos'
       IN /\ \A k \in DOMAIN generationProgress \ {call.id} :
               /\ k \in DOMAIN generationProgress'
               /\ generationProgress'[k] = generationProgress[k]
          /\ call.id \in DOMAIN generationProgress'
          /\ last'.op \in BatchEnds =>
               /\ map = ResultMap(kind, call.ids, call.st)
               /\ \A j \in Idx(call.ids) :
                    call.ids[j] \in DOMAIN generationProgress' =>
                      generationProgress'[call.ids[j]] =
                        SettledEntry(kind, call.st[j], j, Len(call.ids))
    ]_vars

\* A batch of two or more calls has ended with the call of its first
\* segment settling last; the progress map holds the entry of every call.
C3_Witness ==
  /\ last.op = ImageBatchEnd
  /\ Len(last.arg.ids) >= 2
  /\ last.arg.id = last.arg.ids[1]
  /\ \A j \in Idx(last.arg.ids) :
       /\ last.arg.ids[j] \in DOMAIN generationProgress
       /\ generationProgress[last.arg.ids[j]].status \in {"completed", "error"}

\* C2: for each per-entity operation of the flow editor, no two generation
\* calls of the operation for the same entity id are in flight at the same
\* time.
C2_OneCallPerEntity ==
  \A k1, k2 \in Idx(flowOps) :
    (/\ k1 # k2
     /\ flowOps[k1].stage = "generate"
     /\ flowOps[k2].stage = "generate"
     /\ flowOps[k1].op = flowOps[k2].op)
      => flowOps[k1].id # flowOps[k2].id

\* C4: in every state of the chat workflow a selected concept implies that
\* step 1 is done, and a selected script with at least one segment implies
\* that step 3 is done.
C4_SelectionImpliesDone ==
  /\ selectedConcept # Null => stepStatus[1] = "done"
  /\ HasSegments(selectedScript) => stepStatus[3] = "done"

\* The declared precondition of step n
StepPrecondition(n) ==
  CASE n = 1 -> concepts # Null /\ Len(concepts.items) > 0
    [] n = 2 -> selectedConcept # Null
    [] n = 3 -> HasSegments(selectedScript)
    [] n = 4 -> selectedScript # Null
    [] n = 5 -> ~IsEmptyMap(generatedImages)

\* C5: in every state, a step of 1..5 whose status is done has its declared
\* precondition.
C5_DoneImpliesPrecondition ==
  \A n \in 1..5 : stepStatus[n] = "done" => StepPrecondition(n)

\* C6: the step of handleConceptSelect(c) ends with c selected, step 1 done
\* and currentStep 2; the step of handleScriptSelect(s) ends with s
\* selected, step 3 done and currentStep 4.
C6_SelectForcesDone ==
  [][/\ last'.op = "handleConceptSelect" =>
          /\ selectedConcept' = last'.arg
          /\ stepStatus'[1] = "done"
          /\ currentStep' = 2
     /\ last'.op = "handleScriptSelect" =>
          /\ selectedScript' = last'.arg
          /\ stepStatus'[3] = "done"
          /\ currentStep' = 4
    ]_vars

\* The workflow state has its initial value
WorkflowIsInitial ==
  /\ currentStep = 0
  /\ stepStatus = AllPending
  /\ concepts = Null
  /\ selectedConcept = Null
  /\ scripts = Null
  /\ selectedScript = Null
  /\ generatedImages = EmptyMap
  /\ generatedVideos = EmptyMap
  /\ generationProgress = EmptyMap

\* C7: a step of the chat workflow in which the selected project changes to
\* another project or to none leaves the workflow state at its initial
\* value.
C7_ProjectChangeResets ==
  [][(showChat /\ showChat' /\ selectedProject' # selectedProject) => WorkflowIsInitial']_vars

\* The failure notice of a batch (showRequestFailed)
FailureNotice(op) ==
  RequestFailed(IF op = ImageBatchEnd THEN "Image Generation" ELSE "Video Generation")

\* C8: at the end of a batch in which a call failed and another succeeded,
\* the failure notice of the batch is shown.
C8_FailureNoticeShown ==
  (/\ last.op \in BatchEnds
   /\ Failed(last.arg) # {}
   /\ Succeeded(last.arg) # {})
    => creditDeductionMessage = FailureNotice(last.op)

\* C9: at the end of a batch the step of the batch (4 for images, 5 for
\* videos) is done exactly when a call of the batch succeeded, and the
\* image batch has moved currentStep to 5 only when one did.
C9_DoneIffSomeSucceeded ==
  /\ last.op = ImageBatchEnd =>
       /\ stepStatus[4] = "done" <=> Succeeded(last.arg) # {}
       /\ currentStep = 5 => Succeeded(last.arg) # {}
  /\ last.op = VideoBatchEnd =>
       (stepStatus[5] = "done" <=> Succeeded(last.arg) # {})


\* The calls of the run* functions made in a step, told from the handler
\* of the step and the state it started in (lines 1411-1483, 2455-2485)
CallsConceptWriter ==
  \/ last'.op = "handleStepClick" /\ last'.arg = 0 /\ stepStatus[0] # "done"
  \/ last'.op = "handleRedoStep" /\ last'.arg = 0
CallsScriptGeneration ==
  \/ last'.op = "handleStepClick" /\ last'.arg = 2 /\ stepStatus[2] # "done"
  \/ last'.op = "handleRedoStep" /\ last'.arg = 2
CallsImageGeneration ==
  \/ last'.op = "runImageGeneration"
  \/ last'.op = "handleRedoWithModel" /\ last'.arg = 4
CallsVideoGeneration ==
  \/ last'.op = "runVideoGeneration"
  \/ last'.op = "handleRedoWithModel" /\ last'.arg = 5

\* The step a handler moved to before it called a run* function
CallerStep ==
  IF last'.op \in {"handleStepClick", "handleRedoStep", "handleRedoWithModel"}
    THEN last'.arg ELSE currentStep

\* A run* function refused its input: it set the message, started no async
\* function (so issued no request), and left stepStatus, loading and the
\* step of its caller as they were.
RunRefused(message) ==
  /\ error' = Error(message)
  /\ UNCHANGED <<cwRuns, sgRuns, imgRuns, vidRuns, loads, started>>
  /\ stepStatus' = stepStatus
  /\ loading' = loading
  /\ currentStep' = CallerStep

\* The operations of the flow editor that need the stored project, and for
\* each the ids its re-entrancy guard turns away
FlowEntityOps ==
  {"handleRegenerateImage", "handleRegenerateVideo", "handleCreateNewImage",
   "handleCreateNewVideo", "handleMakePrimary"}

TurnedAway(op) ==
  CASE op = "handleRegenerateImage" -> regeneratingImages
    [] op = "handleRegenerateVideo" -> regeneratingVideos
    [] op = "handleCreateNewVideo" -> creatingVideos
    [] OTHER -> {}

\* An operation of the flow editor refused to run without a project: it set
\* the message, issued no request, and left loading and the in-flight sets
\* as they were.
FlowRefused ==
  /\ flowError' = NoProjectError
  /\ flowOps' = flowOps
  /\ flowLoading' = flowLoading
  /\ UNCHANGED flowSets

\* The chat workflow's part of C10
ChatPreconditions ==
  /\ (CallsConceptWriter /\ Trim(prompt) = <<>>) => RunRefused("Please enter a prompt first")
  /\ (CallsScriptGeneration /\ selectedConcept = Null) =>
       RunRefused("Please select a concept first")
  /\ (CallsImageGeneration /\ selectedScript = Null) =>
       RunRefused("Please select a script first")
  /\ (CallsVideoGeneration /\ IsEmptyMap(generatedImages)) =>
       RunRefused("Please generate images first")

\* The refresh of the flow editor with no stored project: on mount, after
\* an edit, and after the generation call of an operation
RefreshPreconditions ==
  /\ (last'.op = "setShowChat" /\ last'.res = "flow" /\ storedProject = Null) =>
       flowError' = NoProjectError /\ flowOps' = <<>> /\ ~flowLoading'
  /\ (last'.op = "handleAfterImageEdit" /\ storedProject = Null) => FlowRefused
  /\ (/\ last'.op = "generationCall"
      /\ last'.res # "threw"
      /\ last'.arg.op # "handleCreateNewVideo"
      /\ storedProject = Null) =>
       /\ flowError' = NoProjectError
       /\ flowLoading' = flowLoading
       /\ \A k \in Idx(flowOps') : \E j \in Idx(flowOps) : flowOps'[k] = flowOps[j]

ConceptWriterFailed ==
  last'.op \in {"runConceptWriter.webInfo", "runConceptWriter.concepts"} /\ last'.res = "failed"
ScriptGenerationFailed == last'.op = "runScriptGeneration" /\ last'.res = "failed"

StepStatuses == {"pending", "loading", "done"}

\* C11: the step in which an external call of runConceptWriter (web-info
\* or concept generation) or of runScriptGeneration fails ends with the
\* status of its step (0 or 2) pending, every status one of pending, loading
\* and done, loading false and an error message set, and leaves
\* currentStep, concepts and scripts as they were.
C11_FailureReverts ==
  [][/\ ConceptWriterFailed => stepStatus'[0] = "pending"
     /\ ScriptGenerationFailed => stepStatus'[2] = "pending"
     /\ (ConceptWriterFailed \/ ScriptGenerationFailed) =>
          /\ \A n \in Steps : stepStatus'[n] \in StepStatuses
          /\ ~loading'
          /\ error' # Null
          /\ currentStep' = currentStep
          /\ concepts' = concepts
          /\ scripts' = scripts
    ]_vars

\* The concept generation of a re-run of runConceptWriter failed while
\* concepts loaded before are stored: they are kept and step 0 is pending.
C11_Witness ==
  /\ last.op = "runConceptWriter.concepts"
  /\ last.res = "failed"
  /\ concepts # Null
  /\ stepStatus[0] = "pending"
  /\ ~loading
  /\ error # Null

\* C12: the step in which the concept generation of runConceptWriter
\* resolves (the web-info lookup resolved before) ends with the returned
\* concept list stored, step 0 done and currentStep 1, whatever the list.
C12_ConceptsStored ==
  [][(last'.op = "runConceptWriter.concepts" /\ last'.res = "ok") =>
       /\ concepts' = Array(last'.arg)
       /\ stepStatus'[0] = "done"
       /\ currentStep' = 1
    ]_vars

\* C13: the step in which the two requests of runScriptGeneration resolve
\* ends with the two responses stored as the two script options,
\* currentStep 3 and step 2 done; step 2 then stays done in every step
\* that leaves the script options, the selected script and the selected
\* project as they are and does not start the generation again; the step
\* in which one of the requests fails leaves the script options as they
\* were.
C13_BothScriptsStored ==
  [][/\ (last'.op = "runScriptGeneration" /\ last'.res = "ok") =>
          /\ scripts' # Null
          /\ scripts'.response1.segments = last'.arg[1]
          /\ scripts'.response2.segments = last'.arg[2]
          /\ currentStep' = 3
          /\ stepStatus'[2] = "done"
     /\ (last'.op = "runScriptGeneration" /\ last'.res = "failed") => scripts' = scripts
     /\ (/\ scripts # Null
         /\ stepStatus[2] = "done"
         /\ scripts' = scripts
         /\ selectedScript' = selectedScript
         /\ selectedProject' = selectedProject
         /\ stepStatus'[2] # "loading") => stepStatus'[2] = "done"
    ]_vars

\* C14: the step in which a per-segment image call of a batch succeeds
\* while other calls of the batch are in flight ends with step 4 done.
C14_FirstImageMarksDone ==
  [][(/\ last'.op = "runImageGeneration.call"
      /\ last'.res = "ok"
      /\ \E j \in Idx(last'.arg.st) : last'.arg.st[j] = "inflight")
       => stepStatus'[4] = "done"]_vars

\* The precondition to enter a step: concepts are stored (step 1), a concept is
\* selected (step 2), a script with a segments array is selected (steps 3
\* and 4), an image is in the generated map (step 5); step 0 has none.
EntryPrecondition(n) ==
  CASE n = 0 -> TRUE
    [] n = 1 -> concepts # Null
    [] n = 2 -> selectedConcept # Null
    [] n \in {3, 4} -> selectedScript # Null
    [] n = 5 -> DOMAIN generatedImages # {}

StartsNoRun ==
  /\ cwRuns' = cwRuns
  /\ sgRuns' = sgRuns
  /\ imgRuns' = imgRuns
  /\ vidRuns' = vidRuns

\* C15: a step of handleStepClick(N) or handleRedoStep(N) taken while the
\* precondition of step N is false or while loading is true leaves
\* currentStep as it was and starts no external call.
C15_DisabledStepUnreachable ==
  [][(/\ last'.op \in {"handleStepClick", "handleRedoStep"}
      /\ ~EntryPrecondition(last'.arg) \/ loading)
       => (currentStep' = currentStep /\ StartsNoRun)]_vars

\* C16: the batch that a step of handleRedoWithModel starts carries the
\* model picked in the redo dialog: the image model of the dialog for a
\* redo of step 4, the video model of the dialog for a redo of step 5.
C16_RedoCarriesPickedModel ==
  [][(last'.op = "handleRedoWithModel" /\ last'.res = "started") =>
       /\ last'.arg = 4 =>
            /\ Len(imgRuns') = Len(imgRuns) + 1
            /\ imgRuns'[Len(imgRuns')].model = redoImageModel
       /\ last'.arg = 5 =>
            /\ Len(vidRuns') = Len(vidRuns) + 1
            /\ vidRuns'[Len(vidRuns')].model = redoVideoModel
    ]_vars

\* The entries of the map before that the map after still holds, unless
\* the batch produced a new result for their segment
KeepsPrior(before, after, call) ==
  \A k \in DOMAIN before :
    k \notin Succeeded(call) => (k \in DOMAIN after /\ after[k] = before[k])

\* C17: the step that ends a batch of image or video generation leaves in
\* the generated map the prior entry of every segment for which the batch
\* produced no new result (its call failed, or it had no call), and a step
\* that settles a call before the end of the batch leaves the map as it
\* was.
C17_PriorResultsKept ==
  [][/\ last'.op = ImageBatchEnd => KeepsPrior(generatedImages, generatedImages', last'.arg)
     /\ last'.op = VideoBatchEnd => KeepsPrior(generatedVideos, generatedVideos', last'.arg)
     /\ last'.op = "runImageGeneration.call" => generatedImages' = generatedImages
     /\ last'.op = "runVideoGeneration.call" => generatedVideos' = generatedVideos
    ]_vars

\* The identifiers an image or video record of segment n may carry: the
\* bare id, seg-<id>, seg-<id>-<timestamp>
Stamps == {"7", "8"}
RecordIdsOf(n) == {BareKey(n), SegKey(n)} \cup {SegKey(n) \o <<t>> : t \in Stamps}

\* C18: the key that flowData derives for an image record of segment N is
\* N for each of the identifiers N, seg-N and seg-N-T, and the step in
\* which loadProjectData resolves attaches every image record that carries
\* one of these identifiers to segment N of the loaded segmentation: the
\* generated map has the image under N and segment N has its s3Key.
C18_ImageKeyCanonical ==
  [][/\ \A n \in 1..MaxSegs : \A u \in RecordIdsOf(n) : ImageSegmentId(u) = BareKey(n)
     /\ (last'.op = "loadProjectData" /\ last'.res = "ok") =>
          \A i \in Idx(last'.arg.images) : \A n \in 1..MaxSegs :
            (/\ last'.arg.images[i].uuid \in RecordIdsOf(n)
             /\ \E k \in Idx(last'.arg.segments) : last'.arg.segments[k].id = BareKey(n))
              => /\ BareKey(n) \in DOMAIN generatedImages'
                 /\ \E k \in Idx(selectedScript'.segments) :
                      /\ selectedScript'.segments[k].id = BareKey(n)
                      /\ selectedScript'.segments[k].s3Key # Null
    ]_vars

\* C19: flowData records every video record whose identifier is seg-N or
\* seg-N-T under the key an image record with that identifier gets, the
\* key N, and the reconciled view has a video for segment N.
C19_VideoKeyCanonical ==
  \A i \in Idx(allProjectData.videos) : \A n \in 1..MaxSegs :
    LET video == allProjectData.videos[i]
    IN (ValidVideoRow(video) /\ video.uuid \in RecordIdsOf(n) \ {BareKey(n)})
         => /\ VideoSegmentId(video.uuid) = ImageSegmentId(video.uuid)
            /\ VideoSegmentId(video.uuid) = BareKey(n)
            /\ BareKey(n) \in DOMAIN flowData.videoDetails

\* C20: for every segment that has image records, of which at most one
\* carries the flag isPrimary = true, the reconciled view surfaces one of
\* the records of the segment as its primary image, and that is the
\* flagged record when there is one.
C20_FlaggedImageIsPrimary ==
  LET fd == flowData
      rows == allProjectData.images
  IN \A k \in DOMAIN fd.imageDetails :
       LET mine == {i \in Idx(rows) :
                      ValidImageRow(rows[i]) /\ ImageSegmentId(rows[i].uuid) = k}
           flagged == {i \in mine : rows[i].isPrimary = Flag(TRUE)}
       IN Cardinality(flagged) <= 1 =>
            /\ \E i \in mine : /\ fd.imageDetails[k].id = rows[i].id
                               /\ fd.images[k] = CloudfrontUrl(rows[i].s3Key)
            /\ \A i \in flagged : fd.imageDetails[k].id = rows[i].id

\* The entry that flowData holds for the image row
EntryOf(fd, row) ==
  LET all == fd.imageDetails[ImageSegmentId(row.uuid)].allImages
  IN all[CHOOSE j \in Idx(all) : all[j].id = row.id /\ all[j].uuid = row.uuid]

\* C21: the entry of an image record that carries a boolean isPrimary has
\* that flag; the entry of a record that carries none is primary when its
\* identifier is N or seg-N and not primary when it is seg-N-T.
C21_PrimaryInferredFromShape ==
  LET fd == flowData
      rows == allProjectData.images
  IN \A i \in Idx(rows) :
       ValidImageRow(rows[i]) =>
         LET e == EntryOf(fd, rows[i])
         IN IF rows[i].isPrimary # Null
              THEN e.isPrimary = rows[i].isPrimary.flag
              ELSE \A n \in 1..MaxSegs :
                     /\ rows[i].uuid \in {BareKey(n), SegKey(n)} => e.isPrimary
                     /\ rows[i].uuid \in {SegKey(n) \o <<t>> : t \in Stamps} => ~e.isPrimary

\* The image entries of segment k that the video row was made from
ImagesOfVideo(fd, k, video) ==
  IF k \in DOMAIN fd.imageDetails
    THEN LET all == fd.imageDetails[k].allImages
         IN {e \in {all[x] : x \in Idx(all)} : e.s3Key = video.imageS3Key}
    ELSE {}

\* C22: two valid video records of one segment N that were made from two
\* different images of the segment are both in the reconciled video map,
\* each under the key N-<id of its image> with its own URL, and the node
\* of each image shows the video of that image.
C22_VideoPerImage ==
  LET fd == flowData
      rows == allProjectData.videos
  IN \A i, j \in Idx(rows) : \A n \in 1..MaxSegs :
       (/\ i # j
        /\ ValidVideoRow(rows[i]) /\ ValidVideoRow(rows[j])
        /\ rows[i].uuid \in RecordIdsOf(n) /\ rows[j].uuid \in RecordIdsOf(n)
        /\ rows[i].imageS3Key # rows[j].imageS3Key)
         => \A e \in ImagesOfVideo(fd, BareKey(n), rows[i]) :
              /\ VideoKey(BareKey(n), e.id) \in DOMAIN fd.videos
              /\ fd.videos[VideoKey(BareKey(n), e.id)] =
                   CloudfrontUrl(rows[i].videoFiles[1].s3Key)
              /\ [segmentId |-> BareKey(n), imageId |-> e.id, videoId |-> rows[i].id]
                   \in VideoNodes

\* C23: every key of the merged video map that has a canonical video shows
\* the URL of the canonical video, and every other key of the map shows
\* the preview stored under it.
C23_CanonicalOverPreview ==
  LET canonical == CanonicalVideos(EmptyMap, allProjectData.videos, 1)
      merged == flowData.videos
  IN \A k \in DOMAIN merged :
       IF k \in DOMAIN canonical
         THEN merged[k] = canonical[k].url
         ELSE k \in DOMAIN temporaryVideos /\ merged[k] = temporaryVideos[k]

\* C24: the step in which one of the three requests of refreshProjectData
\* or fetchAllProjectData is rejected leaves allProjectData as it was, sets
\* the one message "Failed to fetch project data" and ends with loading
\* false.
C24_FailedFetchKeepsData ==
  [][(last'.op = "refreshProjectData" /\ last'.res = "failed") =>
       /\ allProjectData' = allProjectData
       /\ flowError' = Error("Failed to fetch project data")
       /\ ~flowLoading'
    ]_vars

\* A refresh failed while data of an earlier refresh is installed: the
\* data is still there.
C24_Witness ==
  /\ last.op = "refreshProjectData"
  /\ last.res = "failed"
  /\ Len(allProjectData.segments) > 0
  /\ Len(allProjectData.images) > 0
  /\ flowError = Error("Failed to fetch project data")
  /\ ~flowLoading

\* C25: the step in which the three requests resolved and one of the
\* responses has success = false reports an error and leaves
\* allProjectData as it was.
C25_UnsuccessfulIsFailure ==
  [][(last'.op = "refreshProjectData" /\ last'.res = "unsuccessful") =>
       /\ allProjectData' = allProjectData
       /\ flowError' # Null
       /\ ~flowLoading'
    ]_vars

\* ---------------------------------------------------- the projected graph
\* The id of a node: `segment-${id}`, `add-image-${id}`,
\* `image-${segmentId}-${imageId}`, `video-...`, `add-video-...`
NodeId(type, segmentId, imageId) ==
  [type |-> type, segmentId |-> segmentId, imageId |-> imageId]

\* An edge, by the ids of its source and of its target
FlowEdge(source, target) == [source |-> source, target |-> target]

NoElements == [nodes |-> <<>>, edges |-> <<>>]
JoinElements(a, b) == [nodes |-> a.nodes \o b.nodes, edges |-> a.edges \o b.edges]

\* What the loop body of lines 593-672 pushes for one image: its image
\* node with the edge from the add-image node, then the video node or the
\* add-video node with the edge from the image node
\* (variant: the nodes of an image are named after the segment alone)
ImageElementsBySegment(fd, segmentId, image) ==
  LET imageNode == NodeId("image", segmentId, <<>>)
      right == NodeId(IF HasVideo(fd, [segmentId |-> segmentId, imageId |-> image.id])
                        THEN "video" ELSE "add-video",
                      segmentId, <<>>)
  IN [nodes |-> <<imageNode, right>>,
      edges |-> <<FlowEdge(NodeId("add-image", segmentId, <<>>), imageNode),
                  FlowEdge(imageNode, right)>>]

ImageElements(fd, segmentId, image) ==
  LET imageNode == NodeId("image", segmentId, image.id)
      right == NodeId(IF HasVideo(fd, [segmentId |-> segmentId, imageId |-> image.id])
                        THEN "video" ELSE "add-video",
                      segmentId, image.id)
  IN [nodes |-> <<imageNode, right>>,
      edges |-> <<FlowEdge(NodeId("add-image", segmentId, <<>>), imageNode),
                  FlowEdge(imageNode, right)>>]

\* imageDetail.allImages.forEach(...)  (line 592)
RECURSIVE ImagesElements(_, _, _, _)
ImagesElements(fd, segmentId, images, j) ==
  IF j > Len(images) THEN NoElements
  ELSE JoinElements(ImageElements(fd, segmentId, images[j]),
                    ImagesElements(fd, segmentId, images, j + 1))

\* What the loop body of lines 547-673 pushes for one segment
SegmentElements(fd, segment) ==
  JoinElements(
    [nodes |-> <<NodeId("segment", segment.id, <<>>),
                 NodeId("add-image", segment.id, <<>>)>>,
     edges |-> <<FlowEdge(NodeId("segment", segment.id, <<>>),
                          NodeId("add-image", segment.id, <<>>))>>],
    IF segment.id \in DOMAIN fd.images
      THEN ImagesElements(fd, segment.id, fd.imageDetails[segment.id].allImages, 1)
      ELSE NoElements)

\* flowData.segments.forEach(...)  (line 547)
RECURSIVE SegmentsElements(_, _)
SegmentsElements(fd, i) ==
  IF i > Len(fd.segments) THEN NoElements
  ELSE JoinElements(SegmentElements(fd, fd.segments[i]), SegmentsElements(fd, i + 1))

\* createFlowElements (lines 534-677): newNodes and newEdges
CreateFlowElements(fd) == SegmentsElements(fd, 1)

\* How many times x was pushed
Pushed(seq, x) == Cardinality({i \in Idx(seq) : seq[i] = x})

\* The images the flow data holds for a segment
ImagesHeldFor(fd, segmentId) ==
  IF segmentId \in DOMAIN fd.imageDetails
    THEN {fd.imageDetails[segmentId].allImages[j].id :
            j \in Idx(fd.imageDetails[segmentId].allImages)}
    ELSE {}

\* C26: the graph projected from the flow data has, for each segment, one
\* segment node, one add-image node and one edge between the two; for each
\* image of the segment one image node with one edge from the add-image
\* node; and for each image either a video node or an add-video node, never
\* both, with one edge from the image node, the video node exactly when
\* the video map has the segment-image key or else the segment key; and it
\* has nothing more.
C26_GraphShape ==
  LET fd == flowData
      g == CreateFlowElements(fd)
      segmentIds == {fd.segments[i].id : i \in Idx(fd.segments)}
  IN /\ \A s \in segmentIds :
          /\ Pushed(g.nodes, NodeId("segment", s, <<>>)) = 1
          /\ Pushed(g.nodes, NodeId("add-image", s, <<>>)) = 1
          /\ Pushed(g.edges, FlowEdge(NodeId("segment", s, <<>>),
                                      NodeId("add-image", s, <<>>))) = 1
          /\ \A m \in ImagesHeldFor(fd, s) :
               LET hasVideo == \/ (s \o m) \in DOMAIN fd.videos
                               \/ s \in DOMAIN fd.videos
                   chosen == IF hasVideo THEN "video" ELSE "add-video"
                   other == IF hasVideo THEN "add-video" ELSE "video"
               IN /\ Pushed(g.nodes, NodeId("image", s, m)) = 1
                  /\ Pushed(g.edges, FlowEdge(NodeId("add-image", s, <<>>),
                                              NodeId("image", s, m))) = 1
                  /\ Pushed(g.nodes, NodeId(chosen, s, m)) = 1
                  /\ Pushed(g.nodes, NodeId(other, s, m)) = 0
                  /\ Pushed(g.edges, FlowEdge(NodeId("image", s, m),
                                              NodeId(chosen, s, m))) = 1
     /\ Len(g.nodes) = 2 * Cardinality(segmentIds)
                        + 2 * Cardinality(UNION {{<<s, m>> : m \in ImagesHeldFor(fd, s)} :
                                                   s \in segmentIds})
     /\ Len(g.edges) + Cardinality(segmentIds) = Len(g.nodes)

\* The canvas shows a segment with two images, one with its video node
\* through the segment-image key and one with an add-video node
C26_Witness ==
  /\ CanvasShown
  /\ \E s \in {flowData.segments[i].id : i \in Idx(flowData.segments)} :
       \E m1, m2 \in ImagesHeldFor(flowData, s) :
         /\ m1 # m2
         /\ (s \o m1) \in DOMAIN flowData.videos
         /\ NodeId("video", s, m1) \in {CreateFlowElements(flowData).nodes[i] :
                                          i \in Idx(CreateFlowElements(flowData).nodes)}
         /\ NodeId("add-video", s, m2) \in {CreateFlowElements(flowData).nodes[i] :
                                              i \in Idx(CreateFlowElements(flowData).nodes)}

\* ------------------------------------------------------------ lib/pricing
\* A string of the program as a value next to undefined (Null)
JsString(s) == [string |-> s]

\* CREDIT_PRICES (lines 1-84): credits and editCredits of each model of
\* each category, counted in hundredths of a credit (37.5 is 3750)
Price(credits, editCredits) == [credits |-> credits, editCredits |-> editCredits]
CREDIT_PRICES ==
  [category \in {"IMAGE", "VIDEO", "AUDIO", "TEXT"} |->
     CASE category = "IMAGE" ->
            [model \in {"imagen", "recraft-v3"} |->
               IF model = "imagen" THEN Price(200, 400) ELSE Price(100, 200)]
       [] category = "VIDEO" ->
            [model \in {"veo2", "gen4_turbo", "kling v2.1-master", "veo3"} |->
               CASE model = "veo2" -> Price(2500, 3750)
                 [] model = "gen4_turbo" -> Price(250, 375)
                 [] model = "kling v2.1-master" -> Price(2000, 3000)
                 [] model = "veo3" -> Price(3750, 0)]
       [] category = "AUDIO" ->
            [model \in {"elevenlabs"} |-> Price(200, 200)]
       [] category = "TEXT" ->
            [model \in {"perplexity", "concept generator",
                        "script & segmentation", "web-info"} |->
               IF model = "script & segmentation" THEN Price(300, 600)
                                                   ELSE Price(100, 200)]]

\* String.prototype.toUpperCase on the category names that are passed
ToUpperCase(s) ==
  CASE s = "image" -> "IMAGE"
    [] s = "Video" -> "VIDEO"
    [] s = "music" -> "MUSIC"
    [] s = "constructor" -> "CONSTRUCTOR"
    [] OTHER -> s

\* The properties every object literal inherits from Object.prototype
InheritedKeys == {"constructor", "toString"}
Inherited(key) == [inherited |-> key]

\* obj[key] of an object literal: its own property, else the inherited
\* one, else undefined; String(undefined) is the key of undefined
Property(obj, key) ==
  LET name == IF key = Null THEN "undefined" ELSE key.string
  IN IF name \in DOMAIN obj THEN obj[name]
     ELSE IF name \in InheritedKeys THEN Inherited(name)
     ELSE Null

\* What a call does: it returns a number, returns undefined or throws
Returned(v) == [returned |-> v]
ReturnedUndefined == [returnedUndefined |-> TRUE]
Thrown(e) == [thrown |-> e]

\* isEdit ? modelPrices.editCredits : modelPrices.credits  (line 99):
\* undefined on a value that has no such property
CreditsOf(modelPrices, isEdit) ==
  IF "credits" \in DOMAIN modelPrices
    THEN Returned(IF isEdit THEN modelPrices.editCredits ELSE modelPrices.credits)
    ELSE ReturnedUndefined

\* getCreditCost (lines 86-100).  category.toUpperCase() throws a
\* TypeError when category is undefined.
GetCreditCost(category, model, isEdit) ==
  IF category = Null THEN Thrown("TypeError")
  ELSE LET categoryPrices == Property(CREDIT_PRICES, JsString(ToUpperCase(category.string)))
       IN IF categoryPrices = Null THEN Returned(0)
          ELSE LET modelPrices == Property(categoryPrices, model)
               IN IF modelPrices = Null THEN Returned(0)
                  ELSE CreditsOf(modelPrices, isEdit)

\* The categories and the models getCreditCost is called with
Categories ==
  {JsString(s) : s \in {"IMAGE", "image", "VIDEO", "Video", "AUDIO", "TEXT", "music",
                        "constructor"}}
    \cup {Null}
PricedModels ==
  {JsString(s) : s \in {"imagen", "recraft-v3", "veo2", "gen4_turbo", "kling v2.1-master",
                        "veo3", "elevenlabs", "perplexity", "concept generator",
                        "script & segmentation", "web-info",
                        "kling-v2.1-master", "constructor", "toString"}}
    \cup {Null}

\* A call of getCreditCost: nothing of the two components is written
GetCreditCostCall(category, model, isEdit) ==
  /\ last' = Last("getCreditCost", <<category, model, isEdit>>,
                  GetCreditCost(category, model, isEdit))
  /\ UNCHANGED <<showChat, storedProject, chatVars, flowVars>>

PricingNext ==
  \E category \in Categories, model \in PricedModels, isEdit \in BOOLEAN :
    GetCreditCostCall(category, model, isEdit)

PricingSpec == Init /\ [][PricingNext]_vars

\* C27: getCreditCost returns 0, and throws nothing, for a category that
\* is not in the price table and for a model that is not in the table of
\* its category; for a category and a model of the table it returns the
\* editCredits of the model when isEdit is true and its credits otherwise.
C27_UnknownCostsNothing ==
  last.op = "getCreditCost" =>
    LET category == last.arg[1]
        model == last.arg[2]
        isEdit == last.arg[3]
        knownCategory == /\ category # Null
                         /\ ToUpperCase(category.string) \in DOMAIN CREDIT_PRICES
        known == /\ knownCategory
                 /\ model # Null
                 /\ model.string \in DOMAIN CREDIT_PRICES[ToUpperCase(category.string)]
    IN IF known
         THEN LET prices == CREDIT_PRICES[ToUpperCase(category.string)][model.string]
              IN last.res = Returned(IF isEdit THEN prices.editCredits ELSE prices.credits)
         ELSE last.res = Returned(0)

\* ------------------------------------------------- the prompt of an image
\* A text is the sequence of its runs, a run being n >= 1 times one
\* character.  The characters told apart: a printable letter, the space,
\* the newline, the tab and a letter that is not ASCII.
Run(ch, n) == [ch |-> ch, n |-> n]
PromptChars == {"a", " ", "\n", "\t", "e-acute"}

\* [ -~], \s and \n among these characters
PrintableAscii == {"a", " "}
Whitespace == {" ", "\n", "\t"}
Newlines == {"\n"}

\* const MAX_PROMPT_LENGTH = 800  (line 50)
MAX_PROMPT_LENGTH == 800

\* The number of characters of a text
RECURSIVE TextLength(_)
TextLength(text) ==
  IF text = <<>> THEN 0 ELSE Head(text).n + TextLength(Tail(text))

\* .replace(/[^ -~]/g, "")  (line 52)
IsPrintableRun(r) == r.ch \in PrintableAscii
StripNonPrintable(text) == SelectSeq(text, IsPrintableRun)

\* .replace(/X+/g, " "): every maximal block of characters of the class
\* becomes one space  (lines 53, 54)
RECURSIVE ReplaceBlocks(_, _, _)
ReplaceBlocks(text, class, i) ==
  IF i > Len(text) THEN <<>>
  ELSE (IF text[i].ch \in class
          THEN (IF i > 1 /\ text[i - 1].ch \in class THEN <<>> ELSE <<Run(" ", 1)>>)
          ELSE <<text[i]>>)
       \o ReplaceBlocks(text, class, i + 1)

\* .trim()  (line 55)
RECURSIVE TrimStart(_)
TrimStart(text) ==
  IF text = <<>> \/ Head(text).ch \notin Whitespace THEN text ELSE TrimStart(Tail(text))
RECURSIVE TrimEnd(_)
TrimEnd(text) ==
  IF text = <<>> \/ text[Len(text)].ch \notin Whitespace
    THEN text ELSE TrimEnd(SubSeq(text, 1, Len(text) - 1))
TrimText(text) == TrimEnd(TrimStart(text))

\* .substring(0, k)  (line 56)
RECURSIVE Substring(_, _)
Substring(text, k) ==
  IF text = <<>> \/ k = 0 THEN <<>>
  ELSE IF Head(text).n <= k
    THEN <<Head(text)>> \o Substring(Tail(text), k - Head(text).n)
    ELSE <<Run(Head(text).ch, k)>>

\* sanitisedPrompt and safePrompt of generateImage (lines 51-56)
SanitisedPrompt(visual_prompt) ==
  TrimText(ReplaceBlocks(ReplaceBlocks(StripNonPrintable(visual_prompt), Newlines, 1),
                     Whitespace, 1))
SafePrompt(visual_prompt) == Substring(SanitisedPrompt(visual_prompt), MAX_PROMPT_LENGTH)

\* The prompts generateImage is called with: up to MaxPromptRuns runs of
\* one character or of as many as a prompt may have
MaxPromptRuns == 3
RunLengths == {1, MAX_PROMPT_LENGTH}
PromptRuns == {Run(ch, n) : ch \in PromptChars, n \in RunLengths}
VisualPrompts == UNION {[1..k -> PromptRuns] : k \in 0..MaxPromptRuns}

\* A call of generateImage up to the payload (lines 41-65): nothing of
\* the two components is written
GenerateImagePayload(visual_prompt) ==
  /\ last' = Last("generateImage", visual_prompt, SafePrompt(visual_prompt))
  /\ UNCHANGED <<showChat, storedProject, chatVars, flowVars>>

PromptNext == \E visual_prompt \in VisualPrompts : GenerateImagePayload(visual_prompt)

PromptSpec == Init /\ [][PromptNext]_vars

\* A run added to a word, one run per character of the word
AddToWord(word, r) ==
  IF word # <<>> /\ word[Len(word)].ch = r.ch
    THEN [word EXCEPT ![Len(word)] = Run(r.ch, word[Len(word)].n + r.n)]
    ELSE Append(word, r)

\* The words of a text: what its whitespace separates, without the
\* characters that are not printable ASCII
RECURSIVE WordsFrom(_, _, _)
WordsFrom(text, i, word) ==
  IF i > Len(text) THEN (IF word = <<>> THEN <<>> ELSE <<word>>)
  ELSE IF text[i].ch \in Whitespace
    THEN (IF word = <<>> THEN <<>> ELSE <<word>>) \o WordsFrom(text, i + 1, <<>>)
    ELSE IF text[i].ch \notin PrintableAscii
      THEN WordsFrom(text, i + 1, word)
      ELSE WordsFrom(text, i + 1, AddToWord(word, text[i]))
WordsOf(text) == WordsFrom(text, 1, <<>>)

OnlyPrintable(text) == \A i \in Idx(text) : text[i].ch \in PrintableAscii
SingleSpaces(text) ==
  \A i \in Idx(text) :
    text[i].ch \in Whitespace =>
      /\ text[i].ch = " " /\ text[i].n = 1
      /\ i > 1 => text[i - 1].ch \notin Whitespace
NoLeadingSpace(text) == text = <<>> \/ text[1].ch \notin Whitespace

\* C28: the prompt generateImage sends has only printable ASCII
\* characters, single spaces for whitespace, no leading whitespace and at
\* most 800 characters; and the words of the prompt it was given, whatever
\* whitespace or newlines separated them, are its words, one space apart
\* (as far as the 800 characters reach: checked for the prompts that fit).
C28_PromptCleaned ==
  last.op = "generateImage" =>
    /\ OnlyPrintable(last.res)
    /\ SingleSpaces(last.res)
    /\ NoLeadingSpace(last.res)
    /\ TextLength(last.res) <= MAX_PROMPT_LENGTH
    /\ TextLength(last.arg) <= MAX_PROMPT_LENGTH => WordsOf(last.res) = WordsOf(last.arg)

\* The segments of a script whose visual prompt has a character that is
\* no whitespace, by their position, and the rank of one among them
NonBlankVisual(script) ==
  {i \in Idx(script.segments) :
     \E k \in Idx(script.segments[i].visual) :
       script.segments[i].visual[k] \notin {" ", "\n", "\t"}}
RankAmong(eligible, i) == Cardinality({x \in eligible : x <= i})

\* C29: a call of runImageGeneration launches one generation call for each
\* segment of the selected script that has a non-blank visual prompt and
\* none for the others, and the progress entry of each such segment holds
\* its rank among these segments and their number.
C29_OneCallPerVisualSegment ==
  [][(CallsImageGeneration /\ selectedScript # Null) =>
       LET segs == selectedScript.segments
           eligible == NonBlankVisual(selectedScript)
       IN IF eligible = {}
            THEN imgRuns' = imgRuns
            ELSE /\ Len(imgRuns') = Len(imgRuns) + 1
                 /\ LET r == imgRuns'[Len(imgRuns')]
                    IN \A i \in Idx(segs) :
                         Cardinality({j \in Idx(r.targets) :
                                        r.targets[j] = i /\ r.st[j] = "inflight"})
                           = IF i \in eligible THEN 1 ELSE 0
                 /\ DOMAIN generationProgress' = {segs[i].id : i \in eligible}
                 /\ \A i \in eligible :
                      generationProgress'[segs[i].id]
                        = ProgressEntry("image", "generating", RankAmong(eligible, i),
                                        Cardinality(eligible), Null)]_vars

\* A run of runImageGeneration is in flight for a script that has a
\* segment with a blank visual prompt next to one with a prompt
C29_Witness ==
  /\ last.op \in {"runImageGeneration", "handleRedoWithModel"}
  /\ \E k \in Idx(imgRuns) :
       /\ NonBlankVisual(imgRuns[k].script) # {}
       /\ Cardinality(NonBlankVisual(imgRuns[k].script)) < Len(imgRuns[k].script.segments)
       /\ \A j \in Idx(imgRuns[k].targets) : imgRuns[k].st[j] = "inflight"
       /\ generationProgress # EmptyMap

\* The image_s3_key of a call of chatApi.generateVideo (lines 1756-1765):
\* what follows 'cloudfront.net/' in the url of the image, null for a url
\* that does not hold it
ImageS3KeyOfUrl(imageUrl) ==
  IF imageUrl.host = "cloudfront" THEN imageUrl.key ELSE Null

\* C30: a call of runVideoGeneration launches one generation call for each
\* segment of the selected script that has a generated image and none for
\* the others, and every call it launches carries the storage key of the
\* image, never null.
C30_VideoCallCarriesImageKey ==
  [][(CallsVideoGeneration /\ selectedScript # Null /\ Len(vidRuns') = Len(vidRuns) + 1) =>
       LET segs == selectedScript.segments
           r == vidRuns'[Len(vidRuns')]
       IN /\ \A i \in Idx(segs) :
               Cardinality({j \in Idx(r.ids) : r.ids[j] = segs[i].id /\ r.st[j] = "inflight"})
                 = IF \/ segs[i].id \in DOMAIN generatedImages
                      \/ SegPrefixed(segs[i].id) \in DOMAIN generatedImages
                     THEN 1 ELSE 0
          /\ \A j \in Idx(r.ids) : ImageS3KeyOfUrl(r.images[j]) # Null]_vars

\* The in-flight set of a per-entity handler of the flow editor, among the
\* four sets given
InFlightSetOf(op, ri, rv, ci, cv) ==
  CASE op = "handleRegenerateImage" -> ri
    [] op = "handleRegenerateVideo" -> rv
    [] op = "handleCreateNewImage" -> ci
    [] op = "handleCreateNewVideo" -> cv
    [] OTHER -> {}

\* A batch of runImageGeneration or runVideoGeneration has just finished,
\* and no other batch is running
BatchFinished ==
  /\ last.op \in {"runImageGeneration.done", "runVideoGeneration.done"}
  /\ imgRuns = <<>> /\ vidRuns = <<>>

\* C31: every generation task is finalized when its call settles.  When a
\* batch of runImageGeneration or runVideoGeneration has finished, no
\* progress entry is left generating: each is completed or error, and an
\* error entry carries a message.  When an operation of the flow editor
\* has ended, its entity id is in the in-flight set of its handler no more.
C31_TasksFinalized ==
  [][/\ BatchFinished' =>
          \A id \in DOMAIN generationProgress' :
            /\ generationProgress'[id].status \in {"completed", "error"}
            /\ generationProgress'[id].status = "error"
                 => generationProgress'[id].error # Null
     /\ \A k \in Idx(flowOps) :
          flowOps' = RemoveAt(flowOps, k) =>
            flowOps[k].id \notin InFlightSetOf(flowOps[k].op, regeneratingImages',
                                               regeneratingVideos', creatingImages',
                                               creatingVideos')]_vars

\* A batch has finished of which one call failed and one succeeded
C31_Witness ==
  /\ BatchFinished
  /\ \E id1, id2 \in DOMAIN generationProgress :
       /\ generationProgress[id1].status = "error"
       /\ generationProgress[id2].status = "completed"

\* The step is one of handleCreateNewVideo: its call, or the settling of
\* its generation call
CreateNewVideoStep ==
  \/ last'.op = "handleCreateNewVideo"
  \/ last'.op = "generationCall" /\ last'.arg.op = "handleCreateNewVideo"

\* C32: the preview map changes in two ways only.  A handleCreateNewVideo
\* whose call returned a key adds or replaces the entry of the key
\* segmentId-imageId and no other; Clear Previews empties the map.  The
\* refresh, every other operation and a handleCreateNewVideo that failed
\* leave the map as it is, and handleCreateNewVideo never writes the
\* project data.
C32_PreviewMapFrame ==
  [][/\ IF last'.op = "generationCall" /\ last'.arg.op = "handleCreateNewVideo"
             /\ last'.res = "ok"
          THEN LET key == last'.arg.segmentId \o last'.arg.id
               IN /\ DOMAIN temporaryVideos' = DOMAIN temporaryVideos \cup {key}
                  /\ \A k \in DOMAIN temporaryVideos \ {key} :
                       temporaryVideos'[k] = temporaryVideos[k]
          ELSE IF last'.op = "clearPreviews"
            THEN temporaryVideos' = EmptyMap
            ELSE temporaryVideos' = temporaryVideos
     /\ CreateNewVideoStep => allProjectData' = allProjectData]_vars

\* A preview is kept through a refresh that installed a video list
C32_Witness ==
  /\ last.op = "refreshProjectData"
  /\ last.res = "ok"
  /\ Len(allProjectData.videos) > 0
  /\ temporaryVideos # EmptyMap

CombinedVideosMap(generated, stored) ==
  [k \in DOMAIN generated \cup DOMAIN stored |->
     IF k \in DOMAIN stored THEN stored[k] ELSE generated[k]]

\* C34: a successful loadProjectData leaves the stored video map equal to
\* the server-derived map it installs as generatedVideos, and when a video
\* batch finishes for a selected project whose stored map holds
\* server-derived videos only, the combined video map shows, for every segment the batch produced a video
\* for, the newly generated video and not the older stored one.
C34_ServerVideosShown ==
  [][/\ (last'.op = "loadProjectData" /\ last'.res = "ok" /\ Len(loads') < Len(loads)) =>
          storedVideosMap' = generatedVideos'
     /\ (/\ last'.op = "runVideoGeneration.done" /\ Len(vidRuns') < Len(vidRuns)
         /\ selectedProject # Null
         /\ \A k \in DOMAIN storedVideosMap : storedVideosMap[k].host = "cloudfront") =>
          \A k \in DOMAIN generatedVideos' :
            CombinedVideosMap(generatedVideos', storedVideosMap')[k] = generatedVideos'[k]]_vars

\* ------------------------------------------------------------------ C35
\* C35: handleStepClick(N) on an enabled step sets currentStep to N; it
\* starts a run only for N = 0 (the concept writer) or N = 2 (the script
\* generation) and only when stepStatus[N] is not done; on a done step and
\* on the steps 1, 3, 4 and 5 it changes nothing but currentStep and starts
\* no external call.
C35_StepClickStartsOnlyConceptOrScript ==
  [][last'.op = "handleStepClick" =>
       LET n == last'.arg
       IN /\ ~IsStepDisabled(n)
          /\ currentStep' = n
          /\ ~StartsNoRun =>
               /\ n \in {0, 2}
               /\ stepStatus[n] # "done"
               /\ Len(cwRuns') = Len(cwRuns) + (IF n = 0 THEN 1 ELSE 0)
               /\ Len(sgRuns') = Len(sgRuns) + (IF n = 2 THEN 1 ELSE 0)
               /\ imgRuns' = imgRuns /\ vidRuns' = vidRuns
          /\ (stepStatus[n] = "done" \/ n \in {1, 3, 4, 5}) =>
               /\ StartsNoRun
               /\ loads' = loads
               /\ UNCHANGED <<prompt, loading, error, selectedProject, stepStatus,
                              dataVars, generatedVideos, storedVideosMap,
                              generationProgress, modalVars, creditDeductionMessage,
                              modelVars, redoModels, started>>]_vars

\* a click on the first step, already done, went through and started nothing
C35_Witness ==
  /\ last.op = "handleStepClick"
  /\ last.arg = 0
  /\ stepStatus[0] = "done"
  /\ currentStep = 0
  /\ cwRuns = <<>>

\* ------------------------------------------------------------------ C36
\* C36: at most one of runConceptWriter, runScriptGeneration,
\* runImageGeneration, runVideoGeneration and loadProjectData is in flight
\* at any time, and loading is true whenever one of them is in flight.
C36_OneRunInFlight ==
  /\ InFlight <= 1
  /\ InFlight > 0 => loading

\* ------------------------------------------------------------------ C37
\* C37: when an image or video batch finishes that was started for another
\* project than the one selected by now (the selection changed or was
\* cleared meanwhile; the run keeps the project of its requests, lines
\* 1619 and 1773), its results are not installed: concepts, scripts, the
\* image and video maps, the step statuses and currentStep stay as they are.
C37_StaleResultsDropped ==
  [][\A r \in Idx(imgRuns) \cup Idx(vidRuns) :
       LET stale(runs, runs2) ==
             /\ r \in Idx(runs)
             /\ [k \in Idx(runs2) |-> runs2[k].project]
                  = RemoveAt([k \in Idx(runs) |-> runs[k].project], r)
             /\ runs[r].project # selectedProject
       IN (/\ last'.op \in {"runImageGeneration.done", "runVideoGeneration.done"}
           /\ \/ last'.op = "runImageGeneration.done" /\ stale(imgRuns, imgRuns')
              \/ last'.op = "runVideoGeneration.done" /\ stale(vidRuns, vidRuns')) =>
            UNCHANGED <<concepts, selectedConcept, scripts, selectedScript,
                        generatedImages, generatedVideos, stepStatus, currentStep>>]_vars

\* ------------------------------------------------------------------ C38
\* The id string of a node, part by part (the parts are joined by "-"):
\* `segment-${segment.id}`, `add-image-${segment.id}`,
\* `image-${segment.id}-${image.id}`, `video-${segment.id}-${image.id}`,
\* `add-video-${segment.id}-${image.id}`  (lines 552, 563, 591, 622, 648)
NodeIdText(n) ==
  (CASE n.type = "segment" -> <<"segment">>
     [] n.type = "add-image" -> <<"add", "image">>
     [] n.type = "image" -> <<"image">>
     [] n.type = "video" -> <<"video">>
     [] n.type = "add-video" -> <<"add", "video">>) \o n.segmentId \o n.imageId

\* The id string of an edge: `${source}-to-${target}` (lines 577, 609,
\* 639, 662)
EdgeIdText(e) == NodeIdText(e.source) \o <<"to">> \o NodeIdText(e.target)

\* Segment ids are pairwise distinct and image ids are distinct within a
\* segment
DistinctIds(fd) ==
  /\ \A i, j \in Idx(fd.segments) : i # j => fd.segments[i].id # fd.segments[j].id
  /\ \A s \in DOMAIN fd.imageDetails :
       \A i, j \in Idx(fd.imageDetails[s].allImages) :
         i # j => fd.imageDetails[s].allImages[i].id # fd.imageDetails[s].allImages[j].id

C39_SelectableModelsPriced ==
  (/\ last.op = "getCreditCost"
   /\ last.arg[1] \in {JsString("IMAGE"), JsString("VIDEO")}
   /\ last.arg[2] # Null
   /\ last.arg[2].string \in ModelsOf(last.arg[1].string)
   /\ ~last.arg[3]) =>
    LET category == last.arg[1].string
        model == last.arg[2].string
    IN /\ model \in DOMAIN CREDIT_PRICES[category]
       /\ last.res = Returned(CREDIT_PRICES[category][model].credits)
       /\ CREDIT_PRICES[category][model].credits > 0

\* ------------------------------------------------------------------ C40
\* The per-segment calls of the batches that have not settled yet
RECURSIVE CallsInFlight(_)
CallsInFlight(runs) ==
  IF runs = <<>> THEN 0
  ELSE Cardinality({j \in Idx(Head(runs).st) : Head(runs).st[j] = "inflight"})
         + CallsInFlight(Tail(runs))

\* A request of runConceptWriter settles: the run moves on to its second
\* request or ends.  A request of runScriptGeneration or of
\* loadProjectData settles: the run ends.
ConceptWriterSettles ==
  \E r \in Idx(cwRuns) :
    \/ cwRuns[r].stage = "webinfo" /\ cwRuns' = [cwRuns EXCEPT ![r].stage = "concepts"]
    \/ cwRuns' = RemoveAt(cwRuns, r)
ScriptGenerationSettles == \E r \in Idx(sgRuns) : sgRuns' = RemoveAt(sgRuns, r)
LoadSettles == \E r \in Idx(loads) : loads' = RemoveAt(loads, r)

\* A per-segment call of an image or video batch settles
ImageCallSettles == CallsInFlight(imgRuns') < CallsInFlight(imgRuns)
VideoCallSettles == CallsInFlight(vidRuns') < CallsInFlight(vidRuns)

\* Every external call eventually settles: the services answer or the
\* request fails, whatever the user does meanwhile.  For the batches weak
\* fairness is written out, a call being able to settle exactly while a
\* batch is in flight.
CallsSettle ==
  /\ WF_cwRuns(ConceptWriterSettles)
  /\ WF_sgRuns(ScriptGenerationSettles)
  /\ WF_loads(LoadSettles)
  /\ []<>(imgRuns = <<>>) \/ []<><<ImageCallSettles>>_imgRuns
  /\ []<>(vidRuns = <<>>) \/ []<><<VideoCallSettles>>_vidRuns

LiveChatSpec == ChatSpec /\ CallsSettle

\* Nothing is in flight, loading is false and no step has status loading
Quiet == InFlight = 0 /\ ~loading /\ \A n \in Steps : stepStatus[n] # "loading"

\* C40: provided every external call eventually settles, every run that
\* was started (runConceptWriter, runScriptGeneration, runImageGeneration,
\* runVideoGeneration, loadProjectData) eventually finishes: whenever one is
\* in flight, a state follows in which none is, loading is false and no
\* step has status loading; and the step in which a run finishes, with a
\* result or with a failure, leaves loading false.
C40_RunsFinish ==
  /\ (InFlight > 0) ~> Quiet
  /\ [][InFlight' < InFlight => ~loading']_vars

\* A project load failed after a run of the session had been started and
\* finished, and nothing is left in flight
C40_Witness ==
  /\ last.op = "loadProjectData"
  /\ last.res = "failed"
  /\ started = MaxRuns
  /\ Quiet

=============================================================================
